---- MODULE Spec2Model ----
(***************************************************************************)
(* Host-side session engine of the club queue (useClubSession): the Club   *)
(* document held in React state, its clubRef mirror, the durable clubs     *)
(* row, the requests table, the realtime channels and the host timer.      *)
(*                                                                         *)
(* Names are sequences of one-character strings, so that sanitiseName is   *)
(* computed character by character as the source does.                     *)
(***************************************************************************)
EXTENDS Integers, Sequences, FiniteSets, TLC

VARIABLES
    club,            \* React state `club` of the host (useState)
    clubRef,         \* clubRef.current
    renderPending,   \* a setClub was issued and the ref-sync effect has not run yet
    durable,         \* the row of table clubs in the database
    reqTable,        \* rows of table requests
    inbox,           \* INSERT events of channel req-sync not yet handed to the callback
    writes,          \* updates of table clubs whose promise has not settled
    bcast,           \* UPDATE events of channel club-sync not yet handed to the callback
    hb,              \* guestHeartbeatsRef.current
    now,             \* wall clock (Date.now()), in seconds
    lastInactiveCheck, \* lastInactiveCheckRef.current
    secondsCounter,  \* secondsCounter.current
    currentTopPlayer, \* currentTopPlayerRef.current
    settings,        \* the live settings refs read by the engine
    subscribed,      \* the host has subscribed to channel req-sync
    last,            \* the request handed to processRequest in the last step, and its outcome
    used,            \* how many steps of each kind were taken (bounds the exploration)
    hist,            \* facts about the run so far (ghost)
    selectedQueueIdx \* queue positions ticked on the host's queue panel (shell state)

vars == <<club, clubRef, renderPending, durable, reqTable, inbox, writes, bcast, hb, now,
          lastInactiveCheck, secondsCounter, currentTopPlayer, settings, subscribed,
          last, used, hist, selectedQueueIdx>>

(***************************************************************************)
(* Bounds of the exploration.                                              *)
(***************************************************************************)
MaxOps == 2          \* guest inserts, host actions, settings saves and timer firings
MaxFails == 1        \* database updates that fail
MaxInbox == 1        \* INSERT events waiting for the req-sync callback

(***************************************************************************)
(* Program constants.                                                      *)
(***************************************************************************)
MaxNameLen == 20
HistoryCap == 100
MaxWinners == 2
DefaultActiveCourts == 10
DefaultPickLimit == 20
InactiveCheckEvery == 60
StaleAfter == 120
MinActiveForTimer == 4
MinPickLimit == 4

(***************************************************************************)
(* Generic helpers.                                                        *)
(***************************************************************************)
Min(a, b) == IF a < b THEN a ELSE b

\* Array.prototype.findIndex, 1-based; 0 stands for -1.
FindIndex(s, P(_)) ==
    IF \E i \in 1..Len(s) : P(s[i])
    THEN CHOOSE i \in 1..Len(s) : P(s[i]) /\ \A j \in 1..(i - 1) : ~P(s[j])
    ELSE 0

Some(s, P(_)) == \E i \in 1..Len(s) : P(s[i])

Filter(s, P(_)) == SelectSeq(s, P)

Includes(s, x) == \E i \in 1..Len(s) : s[i] = x

\* Array.prototype.slice(0, n)
Take(s, n) == SubSeq(s, 1, Min(n, Len(s)))

\* Array.prototype.slice(n)
Drop(s, n) == SubSeq(s, n + 1, Len(s))

MapSeq(s, F(_)) == [i \in 1..Len(s) |-> F(s[i])]

SeqToSet(s) == {s[i] : i \in 1..Len(s)}

\* obj[key] = v on an object modelled as a function
Put(f, k, v) == [x \in DOMAIN f \cup {k} |-> IF x = k THEN v ELSE f[x]]

\* delete obj[key]
Del(f, k) == [x \in DOMAIN f \ {k} |-> f[x]]

(***************************************************************************)
(* sanitiseName                                                            *)
(***************************************************************************)
LowerChars == {"a", "b", "c", "d"}
UpperChars == {"A", "B", "C", "D"}
DigitChars == {"1"}
AllowedChars == LowerChars \cup UpperChars \cup DigitChars \cup {" "}

ToUpperChar(c) ==
    CASE c = "a" -> "A" [] c = "b" -> "B" [] c = "c" -> "C" [] c = "d" -> "D"
      [] OTHER -> c

\* .replace(/[^a-zA-Z0-9 ]/g, '')
StripChars(n) == SelectSeq(n, LAMBDA c : c \in AllowedChars)

\* .replace(/\s+/g, ' ') (after StripChars the only whitespace left is the blank)
RECURSIVE CollapseSpaces(_)
CollapseSpaces(n) ==
    IF Len(n) <= 1 THEN n
    ELSE IF n[1] = " " /\ n[2] = " " THEN CollapseSpaces(Tail(n))
    ELSE <<n[1]>> \o CollapseSpaces(Tail(n))

\* .trim()
RECURSIVE TrimLeft(_)
TrimLeft(n) == IF n # <<>> /\ n[1] = " " THEN TrimLeft(Tail(n)) ELSE n

RECURSIVE TrimRight(_)
TrimRight(n) ==
    IF n # <<>> /\ n[Len(n)] = " " THEN TrimRight(SubSeq(n, 1, Len(n) - 1)) ELSE n

Trim(n) == TrimRight(TrimLeft(n))

\* .toUpperCase()
ToUpperCase(n) == [i \in 1..Len(n) |-> ToUpperChar(n[i])]

sanitiseName(n) == Take(ToUpperCase(Trim(CollapseSpaces(StripChars(n)))), MaxNameLen)

(***************************************************************************)
(* Sport catalogue                                                         *)
(***************************************************************************)
SPORTS ==
    [badminton |-> 4, pickleball |-> 4, tennis |-> 4, tableTennis |-> 2, squash |-> 2,
     padel |-> 4, pool |-> 2, darts |-> 2, volleyball |-> 6, basketball |-> 10]

DEFAULT_SPORT == "badminton"

\* getSportConfig(sport).playersPerGame; "" stands for null / undefined
playersPerGame(sport) ==
    LET key == IF sport = "" THEN DEFAULT_SPORT ELSE sport
    IN  IF key \in DOMAIN SPORTS THEN SPORTS[key] ELSE SPORTS[DEFAULT_SPORT]

(***************************************************************************)
(* The Club document and its parts.                                        *)
(***************************************************************************)
QueuePlayer(name, gender, resting, power) ==
    [name |-> name, gender |-> gender, isResting |-> resting, isPowerGuest |-> power]

Player(name, gender) == [name |-> name, gender |-> gender, games |-> 0, wins |-> 0]

\* getRoster / mr(): the roster of the club's sport
sportKeyOf(c) == IF c.sport = "" THEN DEFAULT_SPORT ELSE c.sport

getRoster(c) ==
    IF sportKeyOf(c) \in DOMAIN c.master_roster THEN c.master_roster[sportKeyOf(c)] ELSE <<>>

\* updateMR(fn)
updateMR(c, players) ==
    [c EXCEPT !.master_roster = Put(c.master_roster, sportKeyOf(c), players)]

\* Object.values(court_occupants).flat() as a set of entries
OnCourt(c) == UNION {SeqToSet(c.court_occupants[k]) : k \in DOMAIN c.court_occupants}

\* safeEqual: equal length and no differing character
safeEqual(a, b) == Len(a) = Len(b) /\ \A i \in 1..Len(a) : a[i] = b[i]

\* the hash part of a stored "salt:hash" credential (the whole of a legacy one)
StoredHash(stored) ==
    LET colonIdx == FindIndex(stored, LAMBDA c : c = ":")
    IN  IF colonIdx # 0 THEN Drop(stored, colonIdx) ELSE stored

(***************************************************************************)
(* Requests.  A request is [id, sender, action, payload, fromHost]:        *)
(* `sender` is the participant whose device produced it (no field of the   *)
(* stored row carries it), payload is the JSON payload, a record holding   *)
(* the fields that are present.                                            *)
(***************************************************************************)
Has(p, f) == f \in DOMAIN p

\* a row whose payload column is null
NoPayload == [null |-> TRUE]

IsNull(p) == Has(p, "null")

\* payload?.name || ''
PayloadName(p) == IF Has(p, "name") THEN p.name ELSE <<>>

\* p.gender || 'M'
GenderOr(g) == IF g = "" THEN "M" ELSE g

\* the value applyRequest returns; ok = FALSE stands for null, threw = TRUE for a
\* TypeError raised before any return
Result(next, logs, speech, resetTimers, noWrite) ==
    [ok |-> TRUE, threw |-> FALSE, next |-> next, logs |-> logs, speech |-> speech,
     resetTimers |-> resetTimers, noWrite |-> noWrite]

NullResult(prev) ==
    [ok |-> FALSE, threw |-> FALSE, next |-> prev, logs |-> <<>>, speech |-> FALSE,
     resetTimers |-> FALSE, noWrite |-> FALSE]

Thrown(prev) == [NullResult(prev) EXCEPT !.threw = TRUE]

requesterNameOf(req) == sanitiseName(PayloadName(req.payload))

requesterIsPowerGuest(c, req) ==
    Some(c.waiting_list, LAMBDA w : w.name = requesterNameOf(req) /\ w.isPowerGuest)

elevated(c, req) == req.fromHost \/ requesterIsPowerGuest(c, req)

\* waiting_list[idx] = { ...waiting_list[idx], field: v }
SetEntry(c, idx, e) == [c EXCEPT !.waiting_list[idx] = e]

ApplyGrantPowerGuest(prev, req) ==
    IF ~req.fromHost THEN NullResult(prev)
    ELSE
        LET tName == sanitiseName(IF Has(req.payload, "targetName")
                                  THEN req.payload.targetName ELSE <<>>)
            grant == Has(req.payload, "grant") /\ req.payload.grant
            idx == FindIndex(prev.waiting_list, LAMBDA w : w.name = tName)
        IN  IF idx # 0
            THEN Result(SetEntry(prev, idx,
                           [prev.waiting_list[idx] EXCEPT !.isPowerGuest = grant]),
                        <<"POWER">>, FALSE, FALSE, FALSE)
            ELSE Result(prev, <<>>, FALSE, FALSE, FALSE)

\* claim_power_guest whose wrong-hash branch forgets noWrite
ClaimWithoutNoWrite(prev, req) ==
    LET pgPinHash == IF Has(req.payload, "pgPinHash") THEN req.payload.pgPinHash ELSE <<>>
        idx == FindIndex(prev.waiting_list, LAMBDA w : w.name = requesterNameOf(req))
    IN  IF prev.power_guest_pin = <<>> \/ pgPinHash = <<>> THEN NullResult(prev)
        ELSE IF ~safeEqual(pgPinHash, StoredHash(prev.power_guest_pin))
        THEN Result(prev, <<"SECURITY">>, FALSE, FALSE, FALSE)
        ELSE IF idx # 0
        THEN Result(SetEntry(prev, idx, [prev.waiting_list[idx] EXCEPT !.isPowerGuest = TRUE]),
                    <<"POWER">>, FALSE, FALSE, FALSE)
        ELSE Result(prev, <<>>, FALSE, FALSE, FALSE)

ApplyClaimPowerGuest(prev, req) ==
    LET pgPinHash == IF Has(req.payload, "pgPinHash") THEN req.payload.pgPinHash ELSE <<>>
        idx == FindIndex(prev.waiting_list, LAMBDA w : w.name = requesterNameOf(req))
    IN  IF prev.power_guest_pin = <<>> \/ pgPinHash = <<>> THEN NullResult(prev)
        ELSE IF ~safeEqual(pgPinHash, StoredHash(prev.power_guest_pin))
        THEN Result(prev, <<"SECURITY">>, FALSE, FALSE, TRUE)
        ELSE IF idx # 0
        THEN Result(SetEntry(prev, idx, [prev.waiting_list[idx] EXCEPT !.isPowerGuest = TRUE]),
                    <<"POWER">>, FALSE, FALSE, FALSE)
        ELSE Result(prev, <<>>, FALSE, FALSE, FALSE)

\* a batch_join step that registers a known player afresh
JoinStepReRegistering(st, p, isElevated, requesterName) ==
    LET pName == sanitiseName(p.name)
        inRoster == Some(getRoster(st.c), LAMBDA m : m.name = pName)
        c1 == IF inRoster
              THEN updateMR(st.c, [i \in 1..Len(getRoster(st.c)) |->
                                      IF getRoster(st.c)[i].name = pName
                                      THEN Player(pName, GenderOr(p.gender))
                                      ELSE getRoster(st.c)[i]])
              ELSE updateMR(st.c, Append(getRoster(st.c), Player(pName, GenderOr(p.gender))))
        inQueue == Some(c1.waiting_list, LAMBDA x : x.name = pName)
    IN  IF pName = <<>> THEN st
        ELSE IF ~isElevated /\ pName # requesterName
        THEN [st EXCEPT !.logs = Append(@, "SECURITY")]
        ELSE IF inQueue THEN [st EXCEPT !.c = c1]
        ELSE [st EXCEPT
                !.c = [c1 EXCEPT !.waiting_list =
                          Append(@, QueuePlayer(pName, GenderOr(p.gender), FALSE, FALSE))],
                !.added = @ + 1]

\* a batch_join step that does not look for the name in the queue
JoinStepWithoutDedup(st, p, isElevated, requesterName) ==
    LET pName == sanitiseName(p.name)
        inRoster == Some(getRoster(st.c), LAMBDA m : m.name = pName)
        c1 == IF inRoster THEN st.c
              ELSE updateMR(st.c, Append(getRoster(st.c), Player(pName, GenderOr(p.gender))))
        inQueue == FALSE
    IN  IF pName = <<>> THEN st
        ELSE IF ~isElevated /\ pName # requesterName
        THEN [st EXCEPT !.logs = Append(@, "SECURITY")]
        ELSE IF inQueue THEN [st EXCEPT !.c = c1]
        ELSE [st EXCEPT
                !.c = [c1 EXCEPT !.waiting_list =
                          Append(@, QueuePlayer(pName, GenderOr(p.gender), FALSE, FALSE))],
                !.added = @ + 1]

\* one iteration of playersToAdd.forEach; st = [c, added, logs]
BatchJoinStep(st, p, isElevated, requesterName) ==
    LET pName == sanitiseName(p.name)
        inRoster == Some(getRoster(st.c), LAMBDA m : m.name = pName)
        c1 == IF inRoster THEN st.c
              ELSE updateMR(st.c, Append(getRoster(st.c), Player(pName, GenderOr(p.gender))))
        inQueue == Some(c1.waiting_list, LAMBDA x : x.name = pName)
    IN  IF pName = <<>> THEN st
        ELSE IF ~isElevated /\ pName # requesterName
        THEN [st EXCEPT !.logs = Append(@, "SECURITY")]
        ELSE IF inQueue THEN [st EXCEPT !.c = c1]
        ELSE [st EXCEPT
                !.c = [c1 EXCEPT !.waiting_list =
                          Append(@, QueuePlayer(pName, GenderOr(p.gender), FALSE, FALSE))],
                !.added = @ + 1]

RECURSIVE BatchJoinLoop(_, _, _, _)
BatchJoinLoop(st, players, isElevated, requesterName) ==
    IF players = <<>> THEN st
    ELSE BatchJoinLoop(BatchJoinStep(st, Head(players), isElevated, requesterName),
                       Tail(players), isElevated, requesterName)

ApplyBatchJoin(prev, req) ==
    LET playersToAdd == IF Has(req.payload, "players") THEN req.payload.players ELSE <<>>
        st == BatchJoinLoop([c |-> prev, added |-> 0, logs |-> <<>>], playersToAdd,
                            elevated(prev, req), requesterNameOf(req))
    IN  IF st.added > 0
        THEN Result(st.c, Append(st.logs, "QUEUE"), TRUE, FALSE, FALSE)
        ELSE Result(st.c, st.logs, FALSE, FALSE, FALSE)

ApplyTogglePause(prev, req) ==
    LET targetName == sanitiseName(PayloadName(req.payload))
        idx == FindIndex(prev.waiting_list, LAMBDA x : x.name = targetName)
    IN  IF ~elevated(prev, req) /\ targetName # requesterNameOf(req) THEN NullResult(prev)
        ELSE IF idx # 0
        THEN Result(SetEntry(prev, idx,
                       [prev.waiting_list[idx] EXCEPT !.isResting = ~@]),
                    <<"STATUS">>, FALSE, TRUE, FALSE)
        ELSE Result(prev, <<>>, FALSE, TRUE, FALSE)

\* leave that takes a snapshot of the queue as finish_match does
LeaveSavingQueue(prev, req) ==
    LET targetName == sanitiseName(PayloadName(req.payload))
    IN  IF ~elevated(prev, req) /\ targetName # requesterNameOf(req) THEN NullResult(prev)
        ELSE Result([prev EXCEPT !.waiting_list = Filter(@, LAMBDA x : x.name # targetName),
                                 !.saved_queue = Filter(prev.waiting_list,
                                                        LAMBDA x : x.name # targetName)],
                    <<"QUEUE">>, FALSE, TRUE, FALSE)

ApplyLeave(prev, req) ==
    LET targetName == sanitiseName(PayloadName(req.payload))
    IN  IF ~elevated(prev, req) /\ targetName # requesterNameOf(req) THEN NullResult(prev)
        ELSE Result([prev EXCEPT !.waiting_list = Filter(@, LAMBDA x : x.name # targetName)],
                    <<"QUEUE">>, FALSE, TRUE, FALSE)

\* substitute without the test that the requester is the host or a power guest
SubstituteByAnyone(prev, req) ==
    LET cIdx == ToString(req.payload.courtIdx)
        outPlayer == IF Has(req.payload, "outPlayer") THEN req.payload.outPlayer ELSE <<>>
        inPlayer == IF Has(req.payload, "inPlayer") THEN req.payload.inPlayer ELSE <<>>
    IN  IF cIdx \notin DOMAIN prev.court_occupants THEN NullResult(prev)
        ELSE
            LET courtPlayers == prev.court_occupants[cIdx]
                outIdx == FindIndex(courtPlayers, LAMBDA p : p.name = outPlayer)
                inIdx == FindIndex(prev.waiting_list, LAMBDA p : p.name = inPlayer)
            IN  IF outIdx = 0 \/ inIdx = 0 THEN NullResult(prev)
                ELSE
                    LET inPlayerObj == prev.waiting_list[inIdx]
                        outPlayerObj == courtPlayers[outIdx]
                        newCourt == [courtPlayers EXCEPT
                                        ![outIdx] = [inPlayerObj EXCEPT !.isResting = FALSE]]
                        newQueue == Append(Filter(prev.waiting_list,
                                                  LAMBDA p : p.name # inPlayer),
                                           [outPlayerObj EXCEPT !.isResting = FALSE])
                    IN  Result([prev EXCEPT !.court_occupants[cIdx] = newCourt,
                                            !.waiting_list = newQueue],
                               <<"SUB">>, TRUE, FALSE, FALSE)

ApplySubstitute(prev, req) ==
    LET cIdx == ToString(req.payload.courtIdx)
        outPlayer == IF Has(req.payload, "outPlayer") THEN req.payload.outPlayer ELSE <<>>
        inPlayer == IF Has(req.payload, "inPlayer") THEN req.payload.inPlayer ELSE <<>>
    IN  IF ~elevated(prev, req) THEN NullResult(prev)
        ELSE IF cIdx \notin DOMAIN prev.court_occupants THEN NullResult(prev)
        ELSE
            LET courtPlayers == prev.court_occupants[cIdx]
                outIdx == FindIndex(courtPlayers, LAMBDA p : p.name = outPlayer)
                inIdx == FindIndex(prev.waiting_list, LAMBDA p : p.name = inPlayer)
            IN  IF outIdx = 0 \/ inIdx = 0 THEN NullResult(prev)
                ELSE
                    LET inPlayerObj == prev.waiting_list[inIdx]
                        outPlayerObj == courtPlayers[outIdx]
                        newCourt == [courtPlayers EXCEPT
                                        ![outIdx] = [inPlayerObj EXCEPT !.isResting = FALSE]]
                        newQueue == Append(Filter(prev.waiting_list,
                                                  LAMBDA p : p.name # inPlayer),
                                           [outPlayerObj EXCEPT !.isResting = FALSE])
                    IN  Result([prev EXCEPT !.court_occupants[cIdx] = newCourt,
                                            !.waiting_list = newQueue],
                               <<"SUB">>, TRUE, FALSE, FALSE)

\* the roster with field f of the entry named n (if any) increased by one
BumpStat(c, n, f) ==
    LET cur == getRoster(c)
        mIdx == FindIndex(cur, LAMBDA m : m.name = n)
    IN  IF mIdx # 0 THEN updateMR(c, [cur EXCEPT ![mIdx][f] = @ + 1]) ELSE c

RECURSIVE BumpAll(_, _, _)
BumpAll(c, names, f) ==
    IF names = <<>> THEN c ELSE BumpAll(BumpStat(c, Head(names), f), Tail(names), f)

\* the untrusted requester's checks without the one of the position
StartAllowedAnywhere(prev, pNames, requesterName) ==
    LET firstIdx == FindIndex(prev.waiting_list, LAMBDA w : ~w.isResting)
    IN  /\ Includes(pNames, requesterName)
        /\ firstIdx # 0
        /\ prev.waiting_list[firstIdx].name = requesterName
        /\ \A i \in 1..Len(pNames) :
              FindIndex(prev.waiting_list, LAMBDA w : w.name = pNames[i] /\ ~w.isResting) # 0

\* the untrusted requester's checks of start_match
StartAllowed(prev, pNames, requesterName) ==
    LET firstIdx == FindIndex(prev.waiting_list, LAMBDA w : ~w.isResting)
        limit == IF prev.pick_limit = 0 THEN DefaultPickLimit ELSE prev.pick_limit
    IN  /\ Includes(pNames, requesterName)
        /\ firstIdx # 0
        /\ prev.waiting_list[firstIdx].name = requesterName
        /\ \A i \in 1..Len(pNames) :
              LET qIdx == FindIndex(prev.waiting_list,
                                    LAMBDA w : w.name = pNames[i] /\ ~w.isResting)
              IN  qIdx # 0 /\ (qIdx - 1) < limit

\* waiting_list.find(name = pName) || players.find(sanitiseName(p.name) = pName)
validPlayer(prev, players, pName) ==
    LET qIdx == FindIndex(prev.waiting_list, LAMBDA w : w.name = pName)
        pIdx == FindIndex(players, LAMBDA p : sanitiseName(p.name) = pName)
    IN  IF qIdx # 0 THEN prev.waiting_list[qIdx] ELSE players[pIdx]

\* start_match without the check that the court is free
StartOnBusyCourt(prev, req) ==
    LET cIdx == IF Has(req.payload, "courtIdx") THEN req.payload.courtIdx ELSE -1
        players == IF Has(req.payload, "players") THEN req.payload.players ELSE <<>>
        courts == IF prev.active_courts = 0 THEN DefaultActiveCourts ELSE prev.active_courts
        sportPlayers == playersPerGame(prev.sport)
        pNames == MapSeq(players, LAMBDA p : sanitiseName(p.name))
    IN  IF ~Has(req.payload, "courtIdx") \/ cIdx < 0 \/ cIdx >= courts THEN NullResult(prev)
        ELSE IF Len(players) # sportPlayers THEN NullResult(prev)
        ELSE IF Cardinality(SeqToSet(pNames)) # sportPlayers \/ Includes(pNames, <<>>)
        THEN NullResult(prev)
        ELSE IF ~elevated(prev, req) /\ ~StartAllowed(prev, pNames, requesterNameOf(req))
        THEN NullResult(prev)
        ELSE
            LET validPlayers == MapSeq(pNames, LAMBDA n : validPlayer(prev, players, n))
                c1 == [prev EXCEPT
                          !.court_occupants = Put(@, ToString(cIdx), validPlayers),
                          !.waiting_list = Filter(@, LAMBDA w : ~Includes(pNames, w.name))]
                c2 == BumpAll(c1, MapSeq(validPlayers, LAMBDA p : p.name), "games")
            IN  Result(c2, <<"MATCH">>, TRUE, TRUE, FALSE)

ApplyStartMatch(prev, req) ==
    LET cIdx == IF Has(req.payload, "courtIdx") THEN req.payload.courtIdx ELSE -1
        players == IF Has(req.payload, "players") THEN req.payload.players ELSE <<>>
        courts == IF prev.active_courts = 0 THEN DefaultActiveCourts ELSE prev.active_courts
        sportPlayers == playersPerGame(prev.sport)
        pNames == MapSeq(players, LAMBDA p : sanitiseName(p.name))
    IN  IF ~Has(req.payload, "courtIdx") \/ cIdx < 0 \/ cIdx >= courts THEN NullResult(prev)
        ELSE IF ToString(cIdx) \in DOMAIN prev.court_occupants THEN NullResult(prev)
        ELSE IF Len(players) # sportPlayers THEN NullResult(prev)
        ELSE IF Cardinality(SeqToSet(pNames)) # sportPlayers \/ Includes(pNames, <<>>)
        THEN NullResult(prev)
        ELSE IF ~elevated(prev, req) /\ ~StartAllowed(prev, pNames, requesterNameOf(req))
        THEN NullResult(prev)
        ELSE
            LET validPlayers == MapSeq(pNames, LAMBDA n : validPlayer(prev, players, n))
                c1 == [prev EXCEPT
                          !.court_occupants = Put(@, ToString(cIdx), validPlayers),
                          !.waiting_list = Filter(@, LAMBDA w : ~Includes(pNames, w.name))]
                c2 == BumpAll(c1, MapSeq(validPlayers, LAMBDA p : p.name), "games")
            IN  Result(c2, <<"MATCH">>, TRUE, TRUE, FALSE)

\* the winners as given, without the test that they play on the court
WinnersAsGiven(courtPlayers, matchWinners) == Take(matchWinners, MaxWinners)

\* matchWinners.filter(w => courtPlayerNames.includes(w)).slice(0, 2)
validWinnersOf(courtPlayers, matchWinners) ==
    Take(Filter(matchWinners,
                LAMBDA w : Includes(MapSeq(courtPlayers, LAMBDA p : p.name), w)),
         MaxWinners)

\* finish_match that keeps every record
FinishWithoutCap(prev, req) ==
    LET cIdx == ToString(req.payload.courtIdx)
        matchWinners == IF Has(req.payload, "matchWinners") THEN req.payload.matchWinners
                        ELSE <<>>
        courtPlayers == IF cIdx \in DOMAIN prev.court_occupants
                        THEN prev.court_occupants[cIdx] ELSE <<>>
    IN  IF courtPlayers = <<>> THEN NullResult(prev)
        ELSE IF ~elevated(prev, req)
                /\ ~Some(courtPlayers, LAMBDA p : p.name = requesterNameOf(req))
        THEN NullResult(prev)
        ELSE
            LET validWinners == validWinnersOf(courtPlayers, matchWinners)
                c1 == BumpAll(prev, validWinners, "wins")
                finishHalf == Len(courtPlayers) \div 2
                record == [court |-> req.payload.courtIdx + 1,
                           team1 |-> MapSeq(Take(courtPlayers, finishHalf), LAMBDA p : p.name),
                           team2 |-> MapSeq(Drop(courtPlayers, finishHalf), LAMBDA p : p.name),
                           winners |-> validWinners]
                newQueue == c1.waiting_list \o courtPlayers
                c2 == [c1 EXCEPT
                          !.match_history = <<record>> \o @,
                          !.waiting_list = newQueue,
                          !.court_occupants = Del(@, cIdx),
                          !.saved_queue = newQueue]
            IN  Result(c2, <<"MATCH">>, FALSE, TRUE, FALSE)

\* finish_match without the check of who asks
FinishByAnyone(prev, req) ==
    LET cIdx == ToString(req.payload.courtIdx)
        matchWinners == IF Has(req.payload, "matchWinners") THEN req.payload.matchWinners
                        ELSE <<>>
        courtPlayers == IF cIdx \in DOMAIN prev.court_occupants
                        THEN prev.court_occupants[cIdx] ELSE <<>>
    IN  IF courtPlayers = <<>> THEN NullResult(prev)
        ELSE
            LET validWinners == validWinnersOf(courtPlayers, matchWinners)
                c1 == BumpAll(prev, validWinners, "wins")
                finishHalf == Len(courtPlayers) \div 2
                record == [court |-> req.payload.courtIdx + 1,
                           team1 |-> MapSeq(Take(courtPlayers, finishHalf), LAMBDA p : p.name),
                           team2 |-> MapSeq(Drop(courtPlayers, finishHalf), LAMBDA p : p.name),
                           winners |-> validWinners]
                newQueue == c1.waiting_list \o courtPlayers
                c2 == [c1 EXCEPT
                          !.match_history = Take(<<record>> \o @, HistoryCap),
                          !.waiting_list = newQueue,
                          !.court_occupants = Del(@, cIdx),
                          !.saved_queue = newQueue]
            IN  Result(c2, <<"MATCH">>, FALSE, TRUE, FALSE)

ApplyFinishMatch(prev, req) ==
    LET cIdx == ToString(req.payload.courtIdx)
        matchWinners == IF Has(req.payload, "matchWinners") THEN req.payload.matchWinners
                        ELSE <<>>
        courtPlayers == IF cIdx \in DOMAIN prev.court_occupants
                        THEN prev.court_occupants[cIdx] ELSE <<>>
    IN  IF courtPlayers = <<>> THEN NullResult(prev)
        ELSE IF ~elevated(prev, req)
                /\ ~Some(courtPlayers, LAMBDA p : p.name = requesterNameOf(req))
        THEN NullResult(prev)
        ELSE
            LET validWinners == validWinnersOf(courtPlayers, matchWinners)
                c1 == BumpAll(prev, validWinners, "wins")
                finishHalf == Len(courtPlayers) \div 2
                record == [court |-> req.payload.courtIdx + 1,
                           team1 |-> MapSeq(Take(courtPlayers, finishHalf), LAMBDA p : p.name),
                           team2 |-> MapSeq(Drop(courtPlayers, finishHalf), LAMBDA p : p.name),
                           winners |-> validWinners]
                newQueue == c1.waiting_list \o courtPlayers
                c2 == [c1 EXCEPT
                          !.match_history = Take(<<record>> \o @, HistoryCap),
                          !.waiting_list = newQueue,
                          !.court_occupants = Del(@, cIdx),
                          !.saved_queue = newQueue]
            IN  Result(c2, <<"MATCH">>, FALSE, TRUE, FALSE)

\* the requests on which applyRequest reads a property of undefined: a destructuring of,
\* or a member access on, a null payload, and courtIdx.toString() without a courtIdx
Throws(prev, req) ==
    LET p == req.payload
    IN  CASE req.action = "grant_power_guest" -> req.fromHost /\ IsNull(p)
          [] req.action \in {"claim_power_guest", "batch_join", "toggle_pause", "leave",
                             "start_match"} -> IsNull(p)
          [] req.action = "substitute" -> elevated(prev, req) /\ ~Has(p, "courtIdx")
          [] req.action = "finish_match" -> ~Has(p, "courtIdx")
          [] OTHER -> FALSE

applyRequest(prev, req) ==
    IF Throws(prev, req) THEN Thrown(prev) ELSE
    CASE req.action = "grant_power_guest" -> ApplyGrantPowerGuest(prev, req)
      [] req.action = "claim_power_guest" -> ApplyClaimPowerGuest(prev, req)
      [] req.action = "batch_join" -> ApplyBatchJoin(prev, req)
      [] req.action = "toggle_pause" -> ApplyTogglePause(prev, req)
      [] req.action = "leave" -> ApplyLeave(prev, req)
      [] req.action = "substitute" -> ApplySubstitute(prev, req)
      [] req.action = "start_match" -> ApplyStartMatch(prev, req)
      [] req.action = "finish_match" -> ApplyFinishMatch(prev, req)
      [] OTHER -> Result(prev, <<>>, FALSE, FALSE, FALSE)

(***************************************************************************)
(* processRequest and the effects around it.                               *)
(***************************************************************************)
NoLast == [kind |-> "none"]

\* the columns processRequest sends to table clubs
RequestFields(c) ==
    [waiting_list |-> c.waiting_list, master_roster |-> c.master_roster,
     court_occupants |-> c.court_occupants, match_history |-> c.match_history,
     saved_queue |-> c.saved_queue, power_guest_pin |-> c.power_guest_pin]

\* supabase.from('clubs').update(fields): the row with the given columns replaced
UpdateRow(row, fields) ==
    [f \in DOMAIN row |-> IF f \in DOMAIN fields THEN fields[f] ELSE row[f]]

\* an update of table clubs whose promise is pending.  rollback: the caller restores
\* `prev` when it fails.  stale / shared are ghost: what was true when it was issued.
Write(fields, rollback, prev, req, shared) ==
    [fields |-> fields, rollback |-> rollback, prev |-> prev, reqId |-> req.id,
     fromHost |-> req.fromHost, live |-> <<>>, fresh |-> TRUE, shared |-> shared]

NoReq == [id |-> 0, fromHost |-> TRUE]

\* supabase.from('requests').delete().eq('id', id)
DeleteRequest(table, id) == {r \in table : r.id # id}

\* addLog: how many of the lines are recorded
addLog(lines) == IF settings.loggingEnabled THEN Len(lines) ELSE 0

\* stamping that does not test the name
RECURSIVE SeedWithoutCheck(_, _, _)
SeedWithoutCheck(h, names, t) ==
    IF names = <<>> THEN h
    ELSE SeedWithoutCheck(Put(h, Head(names), t), Tail(names), t)

\* guestHeartbeatsRef.current[name] = now, for every non-empty name of the list
RECURSIVE SeedHeartbeats(_, _, _)
SeedHeartbeats(h, names, t) ==
    IF names = <<>> THEN h
    ELSE SeedHeartbeats(IF Head(names) = <<>> THEN h ELSE Put(h, Head(names), t),
                        Tail(names), t)

\* the names processRequest stamps after a successful apply
StampedNames(req) ==
    IF req.action = "batch_join" /\ ~req.fromHost
    THEN <<sanitiseName(PayloadName(req.payload))>>
    ELSE IF req.action = "finish_match" /\ Has(req.payload, "returningPlayers")
    THEN MapSeq(req.payload.returningPlayers, LAMBDA p : sanitiseName(p.name))
    ELSE <<>>

\* some pending request-write read the clubRef value that is still current
SnapshotHeld == \E i \in 1..Len(writes) : writes[i].rollback /\ writes[i].fresh

processRequest(req) ==
    LET prevClub == clubRef
        result == applyRequest(prevClub, req)
    IN  IF req.action = "heartbeat"
        THEN /\ hb' = SeedHeartbeats(hb, <<sanitiseName(PayloadName(req.payload))>>, now)
             /\ reqTable' = DeleteRequest(reqTable, req.id)
             /\ last' = [kind |-> "heartbeat", req |-> req, prev |-> prevClub, logged |-> 0,
                         speech |-> FALSE]
             /\ UNCHANGED <<club, renderPending, writes, secondsCounter, currentTopPlayer>>
        ELSE IF result.threw
        THEN /\ last' = [kind |-> "threw", req |-> req, prev |-> prevClub, logged |-> 0,
                         speech |-> FALSE]
             /\ UNCHANGED <<club, renderPending, writes, hb, reqTable, secondsCounter,
                            currentTopPlayer>>
        ELSE IF ~result.ok
        THEN /\ last' = [kind |-> "null", req |-> req, prev |-> prevClub, logged |-> 0,
                         speech |-> FALSE]
             /\ UNCHANGED <<club, renderPending, writes, hb, reqTable, secondsCounter,
                            currentTopPlayer>>
        ELSE /\ hb' = SeedHeartbeats(hb, StampedNames(req), now)
             /\ club' = result.next
             /\ renderPending' = TRUE
             /\ secondsCounter' = IF result.resetTimers THEN 0 ELSE secondsCounter
             /\ currentTopPlayer' = IF result.resetTimers THEN <<>> ELSE currentTopPlayer
             /\ last' = [kind |-> IF result.noWrite THEN "nowrite" ELSE "applied",
                         req |-> req, prev |-> prevClub, logged |-> addLog(result.logs),
                         speech |-> result.speech]
             /\ IF result.noWrite
                THEN /\ reqTable' = DeleteRequest(reqTable, req.id)
                     /\ UNCHANGED writes
                ELSE /\ writes' = Append(writes, Write(RequestFields(result.next), TRUE,
                                                       prevClub, req, SnapshotHeld))
                     /\ UNCHANGED reqTable

(***************************************************************************)
(* The participants and the inputs explored.                               *)
(***************************************************************************)
StartTime == 1000    \* Date.now() when the host session starts, in seconds

A == <<"A">>
B == <<"B">>
C == <<"C">>
D == <<"D">>

\* what guests type or send as their name; "a" and "B !" sanitise to A and B
RawNames == {<<"a">>, <<"B", " ", "!">>, <<"!">>}

GenderOfName(n) == IF n \in {C, D} THEN "F" ELSE "M"

\* a player object as devices put it into payloads
PayloadPlayer(raw) == QueuePlayer(raw, GenderOfName(sanitiseName(raw)), FALSE, FALSE)

EmptyObj == [x \in {} |-> <<>>]

\* power_guest_pin as stored: salt, colon, hash
StoredPin == <<"s", ":", "h">>
RightHash == <<"h">>
WrongHash == <<"x">>

Sports == {"tableTennis", "badminton"}

FreshClub ==
    [sport |-> "tableTennis", active_courts |-> 2, pick_limit |-> 20,
     waiting_list |-> <<>>, court_occupants |-> EmptyObj, master_roster |-> EmptyObj,
     match_history |-> <<>>, saved_queue |-> <<>>, power_guest_pin |-> StoredPin,
     join_password |-> <<>>]

QueueOf(names) == [i \in 1..Len(names) |-> QueuePlayer(names[i], GenderOfName(names[i]), FALSE, FALSE)]

RosterOf(names) == [i \in 1..Len(names) |-> Player(names[i], GenderOfName(names[i]))]

\* a session resumed with four players waiting
LoadedClub ==
    [FreshClub EXCEPT
        !.waiting_list = QueueOf(<<A, B, C, D>>),
        !.master_roster = Put(EmptyObj, "tableTennis", RosterOf(<<A, B, C, D>>))]

\* a session resumed with a match going on on the first court
PlayingClub ==
    [FreshClub EXCEPT
        !.waiting_list = QueueOf(<<C, D>>),
        !.court_occupants = Put(EmptyObj, "0", QueueOf(<<A, B>>)),
        !.master_roster = Put(EmptyObj, "tableTennis",
                              [i \in 1..4 |-> [RosterOf(<<A, B, C, D>>)[i] EXCEPT
                                                  !.games = IF i <= 2 THEN 1 ELSE 0]])]

InitClubs == {FreshClub, LoadedClub, PlayingClub}

\* the live settings: the defaults of the source, and a host who turned everything on
DefaultSettings ==
    [repeatEnabled |-> FALSE, repeatInterval |-> 30, countdownEnabled |-> FALSE,
     countdownLimit |-> 60, loggingEnabled |-> FALSE]

ActiveSettings ==
    [repeatEnabled |-> TRUE, repeatInterval |-> 1, countdownEnabled |-> TRUE,
     countdownLimit |-> 1, loggingEnabled |-> TRUE]

SettingsChoices == {DefaultSettings, ActiveSettings}

\* a row as a guest device inserts it
Row(sender, action, payload) ==
    [id |-> 0, sender |-> sender, action |-> action, payload |-> payload, fromHost |-> FALSE]

\* sendReq: the device puts its own name into the payload
SentBy(raw, action, payload) == Row(sanitiseName(raw), action, payload)

\* rows whose payload.name is the sender's own name
HonestRows ==
    UNION {
        {SentBy(n, "heartbeat", [name |-> n]),
         SentBy(n, "toggle_pause", [name |-> n]),
         SentBy(n, "leave", [name |-> n]),
         SentBy(n, "batch_join", [name |-> n, players |-> <<PayloadPlayer(n)>>]),
         SentBy(n, "batch_join", [name |-> n, players |-> <<PayloadPlayer(C)>>]),
         SentBy(n, "claim_power_guest", [name |-> n, pgPinHash |-> RightHash]),
         SentBy(n, "claim_power_guest", [name |-> n, pgPinHash |-> WrongHash]),
         SentBy(n, "grant_power_guest", [name |-> n, targetName |-> n, grant |-> TRUE]),
         SentBy(n, "substitute", [name |-> n, courtIdx |-> 0, outPlayer |-> A, inPlayer |-> C]),
         SentBy(n, "finish_match", [name |-> n, courtIdx |-> 0, matchWinners |-> <<A>>,
                                    returningPlayers |-> <<>>]),
         SentBy(n, "start_match", [name |-> n, courtIdx |-> 5,
                                   players |-> <<PayloadPlayer(A), PayloadPlayer(B)>>])}
        \cup {SentBy(n, "start_match", [name |-> n, courtIdx |-> 0, players |-> ps]) :
                ps \in {<<PayloadPlayer(<<"a">>), PayloadPlayer(B)>>,
                        <<PayloadPlayer(A), PayloadPlayer(A)>>,
                        <<PayloadPlayer(A)>>,
                        <<PayloadPlayer(C), PayloadPlayer(D)>>}}
        : n \in RawNames}

\* rows a participant inserts directly, with someone else's name in the payload
Intruder == B

SpoofedRows ==
    {Row(Intruder, "leave", [name |-> A]),
     Row(Intruder, "toggle_pause", [name |-> A]),
     Row(Intruder, "batch_join", [name |-> C, players |-> <<PayloadPlayer(C)>>])}

GuestRows == HonestRows \cup SpoofedRows

\* what the host's own screens hand to processRequest, from the club they show
HostRequest(action, payload) ==
    [id |-> 0, sender |-> <<>>, action |-> action, payload |-> payload, fromHost |-> TRUE]

QueueNames(c) == {c.waiting_list[i].name : i \in 1..Len(c.waiting_list)}

\* the roster screen lets the host tick a player who is neither queued nor playing;
\* "select all" ticks every player listed
isAvailable(c, pName) ==
    /\ ~Some(c.waiting_list, LAMBDA w : w.name = pName)
    /\ ~(\E q \in OnCourt(c) : q.name = pName)

\* the selections of queue positions the host taps (assignCourt)
HostSelections == {<<1, 2>>, <<3, 4>>, <<2, 1, 3, 4>>}

HostRequests(c) ==
    {HostRequest("grant_power_guest", [targetName |-> w.name, grant |-> ~w.isPowerGuest]) :
        w \in SeqToSet(c.waiting_list)}
    \cup {HostRequest("toggle_pause", [name |-> n]) : n \in QueueNames(c)}
    \cup {HostRequest("leave", [name |-> n]) : n \in QueueNames(c)}
    \cup {HostRequest("batch_join", [players |-> <<p>>]) :
            p \in {x \in SeqToSet(getRoster(c)) : isAvailable(c, x.name)}}
    \cup (IF getRoster(c) = <<>> THEN {}
          ELSE {HostRequest("batch_join", [players |-> getRoster(c)])})
    \cup {HostRequest("start_match",
                      [courtIdx |-> k, players |-> [i \in 1..Len(sel) |-> c.waiting_list[sel[i]]]]) :
            k \in 0..(c.active_courts - 1),
            sel \in {x \in HostSelections : \A i \in 1..Len(x) : x[i] <= Len(c.waiting_list)}}
    \cup {HostRequest("finish_match",
                      [courtIdx |-> k, matchWinners |-> <<c.court_occupants[ToString(k)][1].name>>,
                       returningPlayers |-> c.court_occupants[ToString(k)]]) :
            k \in {x \in 0..(c.active_courts - 1) : ToString(x) \in DOMAIN c.court_occupants}}
    \cup {HostRequest("substitute",
                      [courtIdx |-> k, outPlayer |-> c.court_occupants[ToString(k)][1].name,
                       inPlayer |-> c.waiting_list[1].name]) :
            k \in {x \in 0..(c.active_courts - 1) :
                     ToString(x) \in DOMAIN c.court_occupants /\ c.waiting_list # <<>>}}

\* the settings screens the host may save
SettingsInputs ==
    {[sport |-> sp, courts |-> 2, limit |-> 20, live |-> st] :
        sp \in Sports, st \in SettingsChoices}

\* seconds between two firings of the host timer: the interval, or a suspended app
TickGaps == {1, StaleAfter + 1}

(***************************************************************************)
(* The state machine.                                                      *)
(***************************************************************************)
Init ==
    /\ club \in InitClubs
    /\ clubRef = club
    /\ durable = club
    /\ renderPending = FALSE
    /\ reqTable = {}
    /\ inbox = <<>>
    /\ writes = <<>>
    /\ bcast = <<>>
    /\ hb = EmptyObj
    /\ now = StartTime
    /\ lastInactiveCheck = 0
    /\ secondsCounter = 0
    /\ currentTopPlayer = <<>>
    /\ settings \in SettingsChoices
    /\ subscribed = FALSE
    /\ last = NoLast
    /\ used = [ops |-> 0, ins |-> 0, fail |-> 0]
    /\ selectedQueueIdx = <<>>
    /\ hist = [failed |-> FALSE, handed |-> {}, unsaved |-> {}, ideal |-> club]

\* init(): the host seeds the heartbeats of the loaded queue and subscribes to req-sync
HostSubscribe ==
    /\ ~subscribed
    /\ subscribed' = TRUE
    /\ hb' = SeedHeartbeats(hb, MapSeq(durable.waiting_list, LAMBDA w : w.name), now)
    /\ last' = NoLast
    /\ UNCHANGED <<selectedQueueIdx, club, clubRef, renderPending, durable, reqTable, inbox, writes, bcast, now,
                   lastInactiveCheck, secondsCounter, currentTopPlayer, settings, used, hist>>

\* a guest device inserts a row into table requests; the host hears of it only if it
\* is subscribed at that moment
GuestInsertFrom(rows) ==
    \E r \in rows :
        LET row == [r EXCEPT !.id = used.ins + 1]
        IN  /\ used.ops < MaxOps
            /\ Len(inbox) < MaxInbox
            /\ reqTable' = reqTable \cup {row}
            /\ inbox' = IF subscribed THEN Append(inbox, row) ELSE inbox
            /\ used' = [used EXCEPT !.ins = @ + 1, !.ops = @ + 1]
            /\ last' = NoLast
            /\ UNCHANGED <<selectedQueueIdx, club, clubRef, renderPending, durable, writes, bcast, hb, now,
                           lastInactiveCheck, secondsCounter, currentTopPlayer, settings,
                           subscribed, hist>>

GuestInsert == GuestInsertFrom(GuestRows)

\* { ...p.new, _fromHost: false, _isPowerGuest: false }: the row as the callback hands it on
Delivered(row) ==
    IF "isPowerGuest" \in DOMAIN row
    THEN [row EXCEPT !.fromHost = FALSE, !.isPowerGuest = FALSE]
    ELSE [row EXCEPT !.fromHost = FALSE]

\* the req-sync callback handing the row on with the fields it was stored with
ReceiveAsStored ==
    /\ inbox # <<>>
    /\ processRequest(Head(inbox))
    /\ inbox' = Tail(inbox)
    /\ hist' = [hist EXCEPT !.handed = @ \cup {Head(inbox).id}]
    /\ UNCHANGED <<selectedQueueIdx, clubRef, durable, bcast, now, lastInactiveCheck, settings, subscribed, used>>

\* the req-sync callback: processRequest({ ...p.new, _fromHost: false, _isPowerGuest: false })
HostReceive ==
    /\ inbox # <<>>
    /\ processRequest(Delivered(Head(inbox)))
    /\ inbox' = Tail(inbox)
    /\ hist' = [hist EXCEPT !.handed = @ \cup {Head(inbox).id}]
    /\ UNCHANGED <<selectedQueueIdx, clubRef, durable, bcast, now, lastInactiveCheck, settings, subscribed, used>>

\* the host acts on its own device, on what the last render shows:
\* processRequest({ ..., _fromHost: true })
HostAction ==
    /\ subscribed
    /\ used.ops < MaxOps
    /\ \E req \in HostRequests(clubRef) : processRequest(req)
    /\ used' = [used EXCEPT !.ops = @ + 1]
    /\ UNCHANGED <<selectedQueueIdx, clubRef, durable, inbox, bcast, now, lastInactiveCheck, settings,
                   subscribed, hist>>

RemoveAt(s, i) == SubSeq(s, 1, i - 1) \o SubSeq(s, i + 1, Len(s))

\* an update of table clubs succeeds: the row changes and club-sync announces it; the
\* continuation of processRequest deletes the request
WriteSucceeds(i) ==
    LET w == writes[i]
    IN  /\ durable' = UpdateRow(durable, w.fields)
        /\ bcast' = Append(bcast, durable')
        /\ reqTable' = IF w.rollback THEN DeleteRequest(reqTable, w.reqId) ELSE reqTable
        /\ writes' = RemoveAt(writes, i)
        /\ settings' = IF w.live = <<>> THEN settings ELSE w.live[1]
        /\ last' = NoLast
        /\ UNCHANGED <<selectedQueueIdx, club, clubRef, renderPending, inbox, hb, now, lastInactiveCheck,
                       secondsCounter, currentTopPlayer, subscribed, used, hist>>

\* an update of table clubs fails: processRequest puts prevClub back; the timer and the
\* settings screen do not look at the outcome
WriteFails(i) ==
    LET w == writes[i]
    IN  /\ used.fail < MaxFails
        /\ club' = IF w.rollback THEN w.prev ELSE club
        /\ renderPending' = (renderPending \/ w.rollback)
        /\ writes' = RemoveAt(writes, i)
        /\ used' = [used EXCEPT !.fail = @ + 1]
        /\ hist' = [hist EXCEPT !.failed = TRUE,
                                !.unsaved = IF w.reqId # 0 THEN @ \cup {w.reqId} ELSE @]
        /\ settings' = IF w.live = <<>> THEN settings ELSE w.live[1]
        /\ last' = NoLast
        /\ UNCHANGED <<selectedQueueIdx, clubRef, durable, reqTable, inbox, bcast, hb, now, lastInactiveCheck,
                       secondsCounter, currentTopPlayer, subscribed>>

WriteDone == \E i \in 1..Len(writes) : WriteSucceeds(i) \/ WriteFails(i)

\* the club-sync callback on the host: setClub(p.new)
BroadcastDeliver ==
    /\ bcast # <<>>
    /\ club' = Head(bcast)
    /\ renderPending' = TRUE
    /\ bcast' = Tail(bcast)
    /\ last' = NoLast
    /\ UNCHANGED <<selectedQueueIdx, clubRef, durable, reqTable, inbox, writes, hb, now, lastInactiveCheck,
                   secondsCounter, currentTopPlayer, settings, subscribed, used, hist>>

\* React renders and runs the effect clubRef.current = club
Render ==
    /\ renderPending
    /\ clubRef' = club
    /\ renderPending' = FALSE
    /\ writes' = [i \in 1..Len(writes) |-> [writes[i] EXCEPT !.fresh = FALSE]]
    /\ last' = NoLast
    /\ UNCHANGED <<selectedQueueIdx, club, durable, reqTable, inbox, bcast, hb, now, lastInactiveCheck,
                   secondsCounter, currentTopPlayer, settings, subscribed, used, hist>>

\* saveSettings: the screen's values go into the document and into the update; the live
\* settings are set once the update has returned, whatever it returned
SaveSettings ==
    /\ subscribed
    /\ used.ops < MaxOps
    /\ \E ts \in SettingsInputs :
        LET fields == [active_courts |-> ts.courts, pick_limit |-> ts.limit,
                       join_password |-> <<>>, sport |-> ts.sport]
        IN  /\ club' = UpdateRow(club, fields)
            /\ renderPending' = TRUE
            /\ writes' = Append(writes, [Write(fields, FALSE, club, NoReq, FALSE)
                                            EXCEPT !.live = <<ts.live>>])
    /\ used' = [used EXCEPT !.ops = @ + 1]
    /\ last' = NoLast
    /\ UNCHANGED <<selectedQueueIdx, clubRef, durable, reqTable, inbox, bcast, hb, now, lastInactiveCheck,
                   secondsCounter, currentTopPlayer, settings, subscribed, hist>>

(***************************************************************************)
(* The host timer.                                                         *)
(***************************************************************************)
\* the queue entries the inactivity check removes, seen from snapshot c at time t
StaleEntries(c, t) ==
    Filter(c.waiting_list,
           LAMBDA w : /\ w.name \in DOMAIN hb
                      /\ ~(\E p \in OnCourt(c) : p.name = w.name)
                      /\ t - hb[w.name] > StaleAfter)

\* the countdown's move: the first active entry goes one place down
MoveDown(q) ==
    LET lateIdx == FindIndex(q, LAMBDA w : ~w.isResting)
        rest == RemoveAt(q, lateIdx)
        at == Min(lateIdx, Len(rest))
    IN  Take(rest, at) \o <<q[lateIdx]>> \o Drop(rest, at)

FirstActiveName(q) ==
    LET i == FindIndex(q, LAMBDA w : ~w.isResting)
    IN  IF i = 0 THEN <<>> ELSE q[i].name

HostTick ==
    /\ subscribed
    /\ used.ops < MaxOps
    /\ \E dt \in TickGaps :
        LET c == clubRef
            t == now + dt
            doCheck == t - lastInactiveCheck > InactiveCheckEvery
            stale == IF doCheck THEN StaleEntries(c, t) ELSE <<>>
            staleNames == {stale[i].name : i \in 1..Len(stale)}
            evict == stale # <<>>
            newList == Filter(c.waiting_list, LAMBDA w : w.name \notin staleNames)
            club1 == IF evict THEN [club EXCEPT !.waiting_list = newList] ELSE club
            writes1 == IF evict
                       THEN Append(writes, Write([waiting_list |-> newList], FALSE, c,
                                                 NoReq, FALSE))
                       ELSE writes
            sc1 == IF evict THEN 0 ELSE secondsCounter
            top1 == IF evict THEN <<>> ELSE currentTopPlayer
            topPlayer == FirstActiveName(c.waiting_list)
            secs == IF topPlayer # top1 THEN 0 ELSE sc1 + 1
            activeCount == Len(Filter(c.waiting_list, LAMBDA w : ~w.isResting))
            fire == /\ activeCount >= MinActiveForTimer
                    /\ settings.countdownEnabled
                    /\ secs >= settings.countdownLimit
                    /\ Len(c.waiting_list) > 1
            remind == /\ activeCount >= MinActiveForTimer
                      /\ ~fire
                      /\ settings.repeatEnabled
                      /\ secs > 0
                      /\ secs % settings.repeatInterval = 0
            newQueue == MoveDown(c.waiting_list)
        IN  /\ now' = t
            /\ lastInactiveCheck' = IF doCheck THEN t ELSE lastInactiveCheck
            /\ hb' = IF evict THEN [n \in DOMAIN hb \ staleNames |-> hb[n]] ELSE hb
            /\ IF c.waiting_list = <<>> \/ topPlayer = <<>>
               THEN /\ secondsCounter' = 0
                    /\ currentTopPlayer' = <<>>
                    /\ club' = club1
                    /\ writes' = writes1
               ELSE IF activeCount < MinActiveForTimer
               THEN /\ secondsCounter' = 0
                    /\ currentTopPlayer' = topPlayer
                    /\ club' = club1
                    /\ writes' = writes1
               ELSE IF fire
               THEN /\ secondsCounter' = 0
                    /\ currentTopPlayer' = FirstActiveName(newQueue)
                    /\ club' = [club1 EXCEPT !.waiting_list = newQueue]
                    /\ writes' = Append(writes1, Write([waiting_list |-> newQueue], FALSE,
                                                       c, NoReq, FALSE))
               ELSE /\ secondsCounter' = secs
                    /\ currentTopPlayer' = topPlayer
                    /\ club' = club1
                    /\ writes' = writes1
            /\ renderPending' = (renderPending \/ evict \/ (topPlayer # <<>> /\ fire))
            /\ last' = [kind |-> "tick", evicted |-> staleNames,
                        moved |-> (topPlayer # <<>> /\ fire),
                        said |-> IF topPlayer # <<>> /\ fire THEN "timeout"
                                 ELSE IF topPlayer # <<>> /\ remind THEN "repeat"
                                 ELSE "none",
                        logged |-> addLog(stale) +
                                   (IF topPlayer # <<>> /\ fire THEN addLog(<<"TIMER">>) ELSE 0)]
    /\ used' = [used EXCEPT !.ops = @ + 1]
    /\ UNCHANGED <<selectedQueueIdx, clubRef, durable, reqTable, inbox, bcast, settings, subscribed, hist>>

Next ==
    \/ HostSubscribe
    \/ GuestInsert
    \/ HostReceive
    \/ HostAction
    \/ WriteDone
    \/ BroadcastDeliver
    \/ Render
    \/ SaveSettings
    \/ HostTick

Spec == Init /\ [][Next]_vars

(***************************************************************************)
(* Uniqueness of names.                                                    *)
(***************************************************************************)
NoTwoEntries(c) ==
    \A i, j \in 1..Len(c.waiting_list) :
        i # j => c.waiting_list[i].name # c.waiting_list[j].name

NotQueuedAndPlaying(c) ==
    \A i \in 1..Len(c.waiting_list) :
        ~(\E p \in OnCourt(c) : p.name = c.waiting_list[i].name)

\* C1: in every reachable state the persisted Club document has no two waiting_list
\* entries with the same name, and no name both in waiting_list and on a court.
C1_NamesUnique == NoTwoEntries(durable) /\ NotQueuedAndPlaying(durable)

(***************************************************************************)
(* One request at a time.                                                  *)
(***************************************************************************)
\* C2: no processRequest invocation applies its request to the clubRef snapshot that
\* another invocation has read and whose write is still in flight.
C2_OneAtATime == \A i \in 1..Len(writes) : ~writes[i].shared

(***************************************************************************)
(* Requests that name somebody else.                                       *)
(***************************************************************************)
\* the names a request acts on
TargetNames(req) ==
    IF req.action \in {"toggle_pause", "leave"}
    THEN {sanitiseName(PayloadName(req.payload))}
    ELSE IF req.action = "batch_join" /\ Has(req.payload, "players")
    THEN {sanitiseName(req.payload.players[i].name) : i \in 1..Len(req.payload.players)}
    ELSE {}

\* the participant who inserted the row is a power guest of the queue
SenderElevated(c, req) ==
    Some(c.waiting_list, LAMBDA w : w.name = req.sender /\ w.isPowerGuest)

\* C3: a request of a guest who is not a power guest, naming a target other than the
\* guest's own sanitised name, is rejected: the host does not apply it.
C3_OthersRejected ==
    (/\ last.kind \in {"applied", "nowrite"}
     /\ ~last.req.fromHost
     /\ ~SenderElevated(last.prev, last.req)
     /\ \E t \in TargetNames(last.req) : t # <<>> /\ t # last.req.sender)
    => last.prev = club

(***************************************************************************)
(* Court sizes.                                                            *)
(***************************************************************************)
\* C4: in every reachable state each occupied court of the persisted Club document holds
\* exactly playersPerGame entries of the document's sport.
C4_CourtsFull ==
    \A k \in DOMAIN durable.court_occupants :
        Len(durable.court_occupants[k]) = playersPerGame(durable.sport)

(***************************************************************************)
(* Failed writes.                                                          *)
(***************************************************************************)
\* C5: after a failed write, once no write is in flight and no announcement of a write
\* is on its way, the host's in-memory Club equals the persisted one.
C5_RolledBack ==
    (hist.failed /\ writes = <<>> /\ bcast = <<>>) => club = durable

(***************************************************************************)
(* Rejected requests.                                                      *)
(***************************************************************************)
\* a guest who is no power guest asks to queue other people only
Unauthorised(c, req) ==
    /\ req.action = "batch_join"
    /\ ~req.fromHost
    /\ ~elevated(c, req)
    /\ TargetNames(req) # {}
    /\ \A t \in TargetNames(req) : t # <<>> /\ t # requesterNameOf(req)

\* the request names a queue entry that does not exist
UnknownTarget(c, req) ==
    /\ req.action \in {"toggle_pause", "leave"}
    /\ ~Some(c.waiting_list, LAMBDA w : w.name = sanitiseName(PayloadName(req.payload)))

\* the court asked for is out of range or busy, or the number of players is wrong
BadCourt(c, req) ==
    /\ req.action = "start_match"
    /\ \/ req.payload.courtIdx \notin 0..(c.active_courts - 1)
       \/ ToString(req.payload.courtIdx) \in DOMAIN c.court_occupants
       \/ Len(req.payload.players) # playersPerGame(c.sport)

ToBeRejected(c, req) == Unauthorised(c, req) \/ UnknownTarget(c, req) \/ BadCourt(c, req)

\* C9: a request that is to be rejected (unauthorised actor, court busy or out of range,
\* wrong player count, unknown target) changes nothing: the invocation ends without a
\* write, without an audit line and with the Club document as it was.
C9_RejectedSilently ==
    (last.kind \in {"null", "nowrite", "applied"} /\ ToBeRejected(last.prev, last.req))
    => (last.kind = "null" /\ last.logged = 0)

(***************************************************************************)
(* A claim with the wrong credential.                                      *)
(***************************************************************************)
\* guests who join and claim, a host who saves settings
PinRows ==
    {SentBy(n, "batch_join", [name |-> n, players |-> <<PayloadPlayer(n)>>]) : n \in RawNames}
    \cup {SentBy(n, "claim_power_guest", [name |-> n, pgPinHash |-> h]) :
            n \in RawNames, h \in {RightHash, WrongHash}}

PinInsert == GuestInsertFrom(PinRows)

PinNext ==
    \/ HostSubscribe
    \/ PinInsert
    \/ HostReceive
    \/ WriteDone
    \/ BroadcastDeliver
    \/ Render
    \/ SaveSettings

PinSpec == Init /\ [][PinNext]_vars

\* a claim_power_guest whose hash is not the one of the configured power_guest_pin
WrongPin(c, req) ==
    /\ req.action = "claim_power_guest"
    /\ c.power_guest_pin # <<>>
    /\ Has(req.payload, "pgPinHash")
    /\ req.payload.pgPinHash # <<>>
    /\ req.payload.pgPinHash # StoredHash(c.power_guest_pin)

\* the req-sync callback takes a wrong-credential claim
TakesWrongPin == inbox # <<>> /\ inbox' = Tail(inbox) /\ WrongPin(clubRef, Head(inbox))

LiveRows ==
    {SentBy(<<"a">>, "batch_join", [name |-> <<"a">>, players |-> <<PayloadPlayer(<<"a">>)>>]),
     SentBy(<<"a">>, "leave", [name |-> <<"a">>]),
     SentBy(<<"a">>, "toggle_pause", [name |-> <<"a">>]),
     SentBy(<<"a">>, "claim_power_guest", [name |-> <<"a">>, pgPinHash |-> WrongHash])}

LiveInsert == GuestInsertFrom(LiveRows)

LiveNext ==
    \/ HostSubscribe
    \/ LiveInsert
    \/ HostReceive
    \/ WriteDone
    \/ BroadcastDeliver
    \/ Render

LiveSpec ==
    /\ Init
    /\ [][LiveNext]_vars
    /\ WF_vars(HostSubscribe)
    /\ WF_vars(HostReceive)
    /\ WF_vars(WriteDone)
    /\ WF_vars(BroadcastDeliver)
    /\ WF_vars(Render)

InTable(id) == \E r \in reqTable : r.id = id

\* C6: a guest request whose write failed stays in table requests and is in the end
\* processed again, so that its row is deleted as the row of a saved request is.
C6_FailedIsRetried ==
    \A id \in 1..MaxOps : (id \in hist.unsaved) ~> ~InTable(id)

\* C7: every row a guest inserts into table requests is in the end handed to the host's
\* processRequest, whether it was inserted before or after the host subscribed.
C7_EveryRowHanded ==
    \A id \in 1..MaxOps : InTable(id) ~> (id \in hist.handed)

(***************************************************************************)
(* A fixed sequence of requests, delivered one at a time: the next request *)
(* reaches processRequest when the invocation before it has finished and   *)
(* the view has rendered.  The write and the club-sync announcement take   *)
(* whatever time they take.                                                *)
(***************************************************************************)
SeqLen == 3

SeqRows ==
    {SentBy(<<"a">>, "batch_join", [name |-> <<"a">>, players |-> <<PayloadPlayer(<<"a">>)>>]),
     SentBy(B, "batch_join", [name |-> B, players |-> <<PayloadPlayer(B)>>]),
     SentBy(<<"a">>, "toggle_pause", [name |-> <<"a">>]),
     SentBy(B, "leave", [name |-> B])}

\* the document after the requests have been applied one after the other
RECURSIVE ApplyAll(_, _)
ApplyAll(c, reqs) ==
    IF reqs = <<>> THEN c
    ELSE LET result == applyRequest(c, Head(reqs))
         IN  ApplyAll(IF result.ok THEN result.next ELSE c, Tail(reqs))

SeqInit ==
    /\ club = FreshClub
    /\ clubRef = club
    /\ durable = club
    /\ renderPending = FALSE
    /\ inbox \in {[i \in 1..SeqLen |-> [rows[i] EXCEPT !.id = i]] :
                    rows \in [1..SeqLen -> SeqRows]}
    /\ reqTable = SeqToSet(inbox)
    /\ writes = <<>>
    /\ bcast = <<>>
    /\ hb = EmptyObj
    /\ now = StartTime
    /\ lastInactiveCheck = 0
    /\ secondsCounter = 0
    /\ currentTopPlayer = <<>>
    /\ settings = DefaultSettings
    /\ subscribed = TRUE
    /\ last = NoLast
    /\ used = [ops |-> SeqLen, ins |-> SeqLen, fail |-> 0]
    /\ selectedQueueIdx = <<>>
    /\ hist = [failed |-> FALSE, handed |-> {}, unsaved |-> {}, ideal |-> ApplyAll(club, inbox)]

SeqReceive == writes = <<>> /\ ~renderPending /\ HostReceive

SeqWrite == \E i \in 1..Len(writes) : WriteSucceeds(i)

SeqNext == SeqReceive \/ SeqWrite \/ BroadcastDeliver \/ Render

SeqSpec == SeqInit /\ [][SeqNext]_vars

SeqDone == inbox = <<>> /\ writes = <<>> /\ bcast = <<>> /\ ~renderPending

\* C8: when a fixed sequence of requests has been delivered one at a time to a fresh
\* Club and everything has settled, the in-memory and the persisted document are the
\* ones the sequence yields without delays, whatever the delays were.
C8_SameFinalState == SeqDone => (club = hist.ideal /\ durable = hist.ideal)

(***************************************************************************)
(* applyRequest on its own: documents a session can hold, the requests a   *)
(* host screen or a guest device can hand in, applied one after the other  *)
(* with every effect (state, write, render) complete before the next.      *)
(***************************************************************************)
\* a waiting player whom the host made a power guest
PowerClub == [LoadedClub EXCEPT !.waiting_list[2].isPowerGuest = TRUE]

\* the host changed the sport while four players were waiting
MovedClub == [LoadedClub EXCEPT !.sport = "badminton"]

\* match_history as earlier matches left it, most recent first
OldRecord(i) ==
    [court |-> (i % 2) + 1, team1 |-> <<A>>, team2 |-> <<B>>,
     winners |-> IF i % 3 = 0 THEN <<A>> ELSE IF i % 3 = 1 THEN <<B>> ELSE <<>>]

\* a match going on after n matches have been recorded
LongClub(n) == [PlayingClub EXCEPT !.match_history = [i \in 1..n |-> OldRecord(i)]]

\* five waiting, the second one resting, and the smallest pick limit the settings allow
PickClub ==
    [LoadedClub EXCEPT
        !.waiting_list = [QueueOf(<<A, B, C, D, <<"A", "1">>>>) EXCEPT ![2].isResting = TRUE],
        !.master_roster = Put(EmptyObj, "tableTennis", RosterOf(<<A, B, C, D, <<"A", "1">>>>)),
        !.pick_limit = MinPickLimit]

ApplyClubs ==
    InitClubs \cup {PowerClub, MovedClub, PickClub, LongClub(HistoryCap - 1),
                    LongClub(HistoryCap)}

\* rows of guests A, B and C: well-formed ones, and ones with fields missing
ApplyRows ==
    {SentBy(<<"a">>, "toggle_pause", [name |-> <<"a">>]),
     SentBy(<<"a">>, "leave", [name |-> <<"a">>]),
     SentBy(<<"a">>, "batch_join", [name |-> <<"a">>, players |-> <<PayloadPlayer(<<"a">>)>>]),
     SentBy(<<"a">>, "batch_join",
            [name |-> <<"a">>, players |-> <<PayloadPlayer(<<"a">>), PayloadPlayer(C)>>]),
     SentBy(B, "batch_join",
            [name |-> B,
             players |-> <<PayloadPlayer(<<"a">>), PayloadPlayer(<<"!">>),
                           PayloadPlayer(<<"a", "1">>), PayloadPlayer(<<"a">>)>>]),
     SentBy(B, "toggle_pause", [name |-> B]),
     SentBy(B, "start_match",
            [name |-> B, courtIdx |-> 1, players |-> <<PayloadPlayer(D), PayloadPlayer(A)>>]),
     SentBy(B, "substitute", [name |-> B]),
     SentBy(A, "start_match",
            [name |-> A, courtIdx |-> 0, players |-> <<PayloadPlayer(A), PayloadPlayer(D)>>]),
     SentBy(A, "start_match",
            [name |-> A, courtIdx |-> 0,
             players |-> <<PayloadPlayer(A), PayloadPlayer(<<"a", "1">>)>>]),
     SentBy(A, "start_match",
            [name |-> A, courtIdx |-> 0, players |-> <<PayloadPlayer(B), PayloadPlayer(A)>>]),
     SentBy(A, "start_match",
            [name |-> A, courtIdx |-> 0, players |-> <<PayloadPlayer(C), PayloadPlayer(D)>>]),
     SentBy(C, "start_match",
            [name |-> C, courtIdx |-> 1, players |-> <<PayloadPlayer(C), PayloadPlayer(D)>>]),
     SentBy(C, "start_match",
            [name |-> C, courtIdx |-> 0, players |-> <<PayloadPlayer(C), PayloadPlayer(D)>>]),
     SentBy(C, "finish_match", [name |-> C, courtIdx |-> 0, matchWinners |-> <<C>>]),
     SentBy(A, "finish_match", [name |-> A]),
     SentBy(A, "toggle_pause", NoPayload),
     SentBy(A, "batch_join", NoPayload),
     SentBy(A, "start_match", [name |-> A]),
     SentBy(A, "leave", EmptyObj),
     SentBy(A, "dance", [name |-> A])}
    \cup {SentBy(A, "finish_match", [name |-> A, courtIdx |-> 0, matchWinners |-> ws]) :
            ws \in {<<A>>, <<B, A>>, <<A, A>>, <<C, A>>, <<A, B, A>>, <<>>}}

ApplyRequests(c) == HostRequests(c) \cup ApplyRows

ApplyInit ==
    /\ club \in ApplyClubs
    /\ clubRef = club
    /\ durable = club
    /\ renderPending = FALSE
    /\ reqTable = {}
    /\ inbox = <<>>
    /\ writes = <<>>
    /\ bcast = <<>>
    /\ hb = EmptyObj
    /\ now = StartTime
    /\ lastInactiveCheck = 0
    /\ secondsCounter = 0
    /\ currentTopPlayer = <<>>
    /\ settings = DefaultSettings
    /\ subscribed = TRUE
    /\ last = NoLast
    /\ used = [ops |-> 0, ins |-> 0, fail |-> 0]
    /\ selectedQueueIdx = <<>>
    /\ hist = [failed |-> FALSE, handed |-> {}, unsaved |-> {}, ideal |-> club]

\* one request goes through applyRequest; `again` tells that the request applied just
\* before it was this very request
ApplyStep ==
    /\ used.ops < MaxOps
    /\ \E req \in ApplyRequests(club) :
        LET result == applyRequest(club, req)
        IN  /\ club' = IF result.ok THEN result.next ELSE club
            /\ last' = [kind |-> IF result.threw THEN "threw"
                                 ELSE IF ~result.ok THEN "null"
                                 ELSE IF result.noWrite THEN "nowrite" ELSE "applied",
                        req |-> req, prev |-> club, logged |-> Len(result.logs),
                        speech |-> result.speech,
                        again |-> (last.kind = "applied" /\ last.req = req)]
    /\ clubRef' = club'
    /\ durable' = club'
    /\ used' = [used EXCEPT !.ops = @ + 1]
    /\ UNCHANGED <<selectedQueueIdx, renderPending, reqTable, inbox, writes, bcast, hb, now, lastInactiveCheck,
                   secondsCounter, currentTopPlayer, settings, subscribed, hist>>

ApplyNext == ApplyStep

ApplySpec == ApplyInit /\ [][ApplyNext]_vars

\* the step handed applyRequest the request of the step before, which had applied it
Redelivered(action) ==
    last.kind = "applied" /\ last.req.action = action /\ last'.req = last.req

(***************************************************************************)
(* A request delivered twice.                                              *)
(***************************************************************************)
\* C11: when a toggle_pause request that has been applied is delivered a second time, the
\* Club document after the second delivery is the document after the first.
C11_PauseTwice == [][Redelivered("toggle_pause") => club' = club]_vars

\* C12: when a start_match or finish_match request that has been applied is delivered a
\* second time with nothing applied in between, it is rejected and the Club document
\* stays as the first application left it.
C12_MatchTwice ==
    [][(Redelivered("start_match") \/ Redelivered("finish_match"))
        => (last'.kind = "null" /\ club' = club)]_vars

\* a finish_match was applied, delivered again and rejected: its one record is in
\* match_history and its court is free
C12_MatchTwiceSeen ==
    /\ last.kind = "null"
    /\ last.again
    /\ last.req.action = "finish_match"
    /\ Len(club.match_history) = 1
    /\ ToString(last.req.payload.courtIdx) \notin DOMAIN club.court_occupants

(***************************************************************************)
(* finish_match and start_match.                                           *)
(***************************************************************************)
\* the step applied a request of this action
Applied(action) == last'.kind = "applied" /\ last'.req.action = action

\* C13: match_history never holds more than 100 records; a finish_match puts its record
\* in front and keeps the records before it in their order, and when 100 were held the
\* last of them, the oldest, is the one that goes.
C13_HistoryCapped ==
    [][/\ Len(club'.match_history) <= HistoryCap
       /\ Applied("finish_match") =>
            LET h == club.match_history
                h2 == club'.match_history
            IN  /\ Len(h2) = Min(Len(h) + 1, HistoryCap)
                /\ h2[1].court = last'.req.payload.courtIdx + 1
                /\ \A i \in 2..Len(h2) : h2[i] = h[i - 1]]_vars

\* a finish_match was applied to a document that held 100 records: 100 are held, the
\* oldest of before is gone and the second oldest is now the last
C13_HistoryFullSeen ==
    /\ last.kind = "applied"
    /\ last.req.action = "finish_match"
    /\ Len(last.prev.match_history) = HistoryCap
    /\ Len(club.match_history) = HistoryCap
    /\ club.match_history[HistoryCap] = last.prev.match_history[HistoryCap - 1]
    /\ club.match_history[HistoryCap] # last.prev.match_history[HistoryCap]

\* matchWinners as the request gives them
GivenWinners(req) ==
    IF Has(req.payload, "matchWinners") THEN req.payload.matchWinners ELSE <<>>

NamesOf(entries) == [i \in 1..Len(entries) |-> entries[i].name]

\* what a finish_match that names ws as winners is to do to document c, giving c2
FinishEffect(c, c2, req, ws, perWinner(_)) ==
    LET k == ToString(req.payload.courtIdx)
        occ == c.court_occupants[k]
        half == Len(occ) \div 2
    IN  /\ DOMAIN c2.court_occupants = DOMAIN c.court_occupants \ {k}
        /\ \A x \in DOMAIN c2.court_occupants : c2.court_occupants[x] = c.court_occupants[x]
        /\ c2.waiting_list = c.waiting_list \o occ
        /\ Len(c2.match_history) = Min(Len(c.match_history) + 1, HistoryCap)
        /\ c2.match_history[1].team1 = NamesOf(Take(occ, half))
        /\ c2.match_history[1].team2 = NamesOf(Drop(occ, half))
        /\ c2.match_history[1].winners = ws
        /\ Len(getRoster(c2)) = Len(getRoster(c))
        /\ \A i \in 1..Len(getRoster(c)) :
              /\ getRoster(c2)[i].name = getRoster(c)[i].name
              /\ getRoster(c2)[i].games = getRoster(c)[i].games
              /\ getRoster(c2)[i].wins = getRoster(c)[i].wins + perWinner(getRoster(c)[i].name)
        /\ c2.saved_queue = c2.waiting_list

\* the winners given are occupants of the court, two at most
WinnersWellFormed(c, req) ==
    /\ Len(GivenWinners(req)) <= MaxWinners
    /\ \A i \in 1..Len(GivenWinners(req)) :
          Includes(NamesOf(c.court_occupants[ToString(req.payload.courtIdx)]),
                   GivenWinners(req)[i])

\* C14: a finish_match accepted on a busy court, naming occupants as winners, frees the
\* court, appends its occupants to the back of waiting_list in their order, prepends one
\* record with the two halves as teams and the given winners, adds 1 to the wins of each
\* winner in the roster and to nobody else's, and sets saved_queue to the new waiting_list.
C14_FinishMatch ==
    [][(Applied("finish_match") /\ WinnersWellFormed(club, last'.req))
        => FinishEffect(club, club', last'.req, GivenWinners(last'.req),
                        LAMBDA n : IF Includes(GivenWinners(last'.req), n) THEN 1 ELSE 0)]_vars

\* the names a start_match gives, sanitised
GivenNames(req) ==
    IF Has(req.payload, "players")
    THEN [i \in 1..Len(req.payload.players) |-> sanitiseName(req.payload.players[i].name)]
    ELSE <<>>

\* a trusted start_match that names exactly playersPerGame distinct queued players and a
\* free court within active_courts
TrustedStart(c, req) ==
    /\ req.action = "start_match"
    /\ ~IsNull(req.payload)
    /\ elevated(c, req)
    /\ Has(req.payload, "courtIdx")
    /\ req.payload.courtIdx \in 0..(c.active_courts - 1)
    /\ ToString(req.payload.courtIdx) \notin DOMAIN c.court_occupants
    /\ Len(GivenNames(req)) = playersPerGame(c.sport)
    /\ Cardinality(SeqToSet(GivenNames(req))) = playersPerGame(c.sport)
    /\ SeqToSet(GivenNames(req)) \subseteq QueueNames(c)

\* the players are on the court in the given order and out of the queue, the others
\* keep their order
Placed(c, c2, req) ==
    LET k == ToString(req.payload.courtIdx)
        pNames == GivenNames(req)
        rest == {i \in 1..Len(c.waiting_list) : ~Includes(pNames, c.waiting_list[i].name)}
    IN  /\ DOMAIN c2.court_occupants = DOMAIN c.court_occupants \cup {k}
        /\ \A x \in DOMAIN c.court_occupants : c2.court_occupants[x] = c.court_occupants[x]
        /\ NamesOf(c2.court_occupants[k]) = pNames
        /\ \A i \in 1..Len(pNames) : Includes(c.waiting_list, c2.court_occupants[k][i])
        /\ Len(c2.waiting_list) = Cardinality(rest)
        /\ \A i \in 1..Len(c2.waiting_list) :
              /\ ~Includes(pNames, c2.waiting_list[i].name)
              /\ Includes(c.waiting_list, c2.waiting_list[i])
        /\ \A i, j \in rest :
              i < j => \E a, b \in 1..Len(c2.waiting_list) :
                          /\ a < b
                          /\ c2.waiting_list[a] = c.waiting_list[i]
                          /\ c2.waiting_list[b] = c.waiting_list[j]

\* C15: a trusted start_match naming exactly playersPerGame distinct queued players and a
\* free court within active_courts is applied, places those players on the court in the
\* given order, removes them from waiting_list keeping the order of the others, and
\* every one of them has a roster entry whose games is 1 more than before.
C15_StartMatch ==
    [][TrustedStart(club, last'.req) =>
        /\ last'.kind = "applied"
        /\ Placed(club, club', last'.req)
        /\ \A n \in SeqToSet(GivenNames(last'.req)) :
              \E i \in 1..Len(getRoster(club)) :
                  /\ getRoster(club)[i].name = n
                  /\ i <= Len(getRoster(club'))
                  /\ getRoster(club')[i].games = getRoster(club)[i].games + 1]_vars

\* what the code does hold to: placing and removing as in C15; games goes up by 1 for the
\* named players that have an entry in the roster of the current sport, a named player
\* without one is not counted, and no other number of the roster changes.
StartCountsRostered ==
    [][TrustedStart(club, last'.req) =>
        /\ last'.kind = "applied"
        /\ Placed(club, club', last'.req)
        /\ Len(getRoster(club')) = Len(getRoster(club))
        /\ \A i \in 1..Len(getRoster(club)) :
              /\ getRoster(club')[i].name = getRoster(club)[i].name
              /\ getRoster(club')[i].wins = getRoster(club)[i].wins
              /\ getRoster(club')[i].games = getRoster(club)[i].games +
                    (IF Includes(GivenNames(last'.req), getRoster(club)[i].name)
                     THEN 1 ELSE 0)]_vars

\* power guest B has put D and A, in this order, on the second court: C is left waiting
\* with B and both D and A have one game
StartByPowerGuestSeen ==
    /\ last.kind = "applied"
    /\ last.req.action = "start_match"
    /\ ~last.req.fromHost
    /\ TrustedStart(last.prev, last.req)
    /\ "1" \in DOMAIN club.court_occupants
    /\ NamesOf(club.court_occupants["1"]) = <<D, A>>
    /\ NamesOf(club.waiting_list) = <<B, C>>
    /\ \E i \in 1..Len(getRoster(club)) :
          getRoster(club)[i].name = D /\ getRoster(club)[i].games = 1

(***************************************************************************)
(* Who changes the statistics.                                             *)
(***************************************************************************)
\* every roster entry of c is in c2 at its place with the same games and wins
StatsKept(c, c2) ==
    \A sp \in DOMAIN c.master_roster :
        /\ sp \in DOMAIN c2.master_roster
        /\ Len(c2.master_roster[sp]) >= Len(c.master_roster[sp])
        /\ \A i \in 1..Len(c.master_roster[sp]) :
              /\ c2.master_roster[sp][i].name = c.master_roster[sp][i].name
              /\ c2.master_roster[sp][i].games = c.master_roster[sp][i].games
              /\ c2.master_roster[sp][i].wins = c.master_roster[sp][i].wins

\* the step ran processRequest on a request that is neither start_match nor finish_match
OtherRequestTaken ==
    /\ last'.kind \in {"heartbeat", "null", "nowrite", "applied", "threw"}
    /\ last'.req.action \notin {"start_match", "finish_match"}

\* rows of guest A, who has played a game, and of C, who may claim power guest status
StatsRows ==
    {SentBy(<<"a">>, "heartbeat", [name |-> <<"a">>]),
     SentBy(<<"a">>, "batch_join", [name |-> <<"a">>, players |-> <<PayloadPlayer(<<"a">>)>>]),
     SentBy(C, "toggle_pause", [name |-> C]),
     SentBy(C, "leave", [name |-> C]),
     SentBy(C, "claim_power_guest", [name |-> C, pgPinHash |-> RightHash]),
     SentBy(C, "substitute", [name |-> C, courtIdx |-> 0, outPlayer |-> A, inPlayer |-> D])}

StatsInsert == GuestInsertFrom(StatsRows)

\* grantPowerGuest: the host grants or revokes on the queue it sees
grantPowerGuest ==
    /\ subscribed
    /\ used.ops < MaxOps
    /\ \E w \in SeqToSet(clubRef.waiting_list) :
          processRequest(HostRequest("grant_power_guest",
                                     [targetName |-> w.name, grant |-> ~w.isPowerGuest]))
    /\ used' = [used EXCEPT !.ops = @ + 1]
    /\ UNCHANGED <<selectedQueueIdx, clubRef, durable, inbox, bcast, now, lastInactiveCheck, settings,
                   subscribed, hist>>

StatsNext ==
    \/ HostSubscribe
    \/ StatsInsert
    \/ HostReceive
    \/ grantPowerGuest
    \/ WriteDone
    \/ BroadcastDeliver
    \/ Render
    \/ HostTick

StatsSpec == Init /\ [][StatsNext]_vars

C17_NeverThrows == last.kind \in {"none", "null", "nowrite", "applied"}

(***************************************************************************)
(* The host's reset and wipe, in a session that has a join password and a  *)
(* recorded match.                                                         *)
(***************************************************************************)
\* join_password as saveSettings stores it: the hash of what the host typed
JoinHash == <<"j">>

SecretClub(c) == [c EXCEPT !.join_password = JoinHash, !.match_history = <<OldRecord(1)>>]

AdminClubs == {SecretClub(c) : c \in InitClubs}

AdminInit ==
    /\ club \in AdminClubs
    /\ clubRef = club
    /\ durable = club
    /\ renderPending = FALSE
    /\ reqTable = {}
    /\ inbox = <<>>
    /\ writes = <<>>
    /\ bcast = <<>>
    /\ hb = EmptyObj
    /\ now = StartTime
    /\ lastInactiveCheck = 0
    /\ secondsCounter = 0
    /\ currentTopPlayer = <<>>
    /\ settings \in SettingsChoices
    /\ subscribed = FALSE
    /\ last = NoLast
    /\ used = [ops |-> 0, ins |-> 0, fail |-> 0]
    /\ selectedQueueIdx = <<>>
    /\ hist = [failed |-> FALSE, handed |-> {}, unsaved |-> {}, ideal |-> club]

\* the host confirms an alert: the columns go into the document and into an update of
\* table clubs whose outcome nobody looks at
HostClears(kind, fields) ==
    /\ subscribed
    /\ used.ops < MaxOps
    /\ club' = UpdateRow(club, fields)
    /\ renderPending' = TRUE
    /\ writes' = Append(writes, Write(fields, FALSE, club, NoReq, FALSE))
    /\ used' = [used EXCEPT !.ops = @ + 1]
    /\ last' = [kind |-> kind, prev |-> club]
    /\ UNCHANGED <<selectedQueueIdx, clubRef, durable, reqTable, inbox, bcast, hb, now, lastInactiveCheck,
                   secondsCounter, currentTopPlayer, settings, subscribed, hist>>

resetSession ==
    HostClears("reset", [waiting_list |-> <<>>, court_occupants |-> EmptyObj])

executeFullWipe ==
    HostClears("wipe", [waiting_list |-> <<>>, court_occupants |-> EmptyObj,
                        master_roster |-> EmptyObj, match_history |-> <<>>])

AdminNext ==
    \/ HostSubscribe
    \/ resetSession
    \/ executeFullWipe
    \/ HostAction
    \/ WriteDone
    \/ BroadcastDeliver
    \/ Render

AdminSpec == AdminInit /\ [][AdminNext]_vars

\* C18: the host's reset session empties waiting_list, court_occupants and match_history
\* and leaves the roster and the join password as they were.
C18_ResetSession ==
    [][last'.kind = "reset" =>
        /\ club'.waiting_list = <<>>
        /\ club'.court_occupants = EmptyObj
        /\ club'.match_history = <<>>
        /\ club'.master_roster = club.master_roster
        /\ club'.join_password = club.join_password]_vars

\* C19: the host's full wipe empties waiting_list, court_occupants and match_history
\* and clears the roster and the join password.
C19_FullWipe ==
    [][last'.kind = "wipe" =>
        /\ club'.waiting_list = <<>>
        /\ club'.court_occupants = EmptyObj
        /\ club'.match_history = <<>>
        /\ club'.master_roster = EmptyObj
        /\ club'.join_password = <<>>]_vars

(***************************************************************************)
(* batch_join.                                                             *)
(***************************************************************************)
\* the names of the list that are not empty and not in `seen`, each once, in list order
RECURSIVE Fresh(_, _)
Fresh(names, seen) ==
    IF names = <<>> THEN <<>>
    ELSE IF Head(names) = <<>> \/ Head(names) \in seen THEN Fresh(Tail(names), seen)
    ELSE <<Head(names)>> \o Fresh(Tail(names), seen \cup {Head(names)})

\* a batch_join that is trusted, or names nobody but its requester
JoinAllowed(c, req) ==
    /\ req.action = "batch_join"
    /\ ~IsNull(req.payload)
    /\ \/ elevated(c, req)
       \/ \A n \in SeqToSet(GivenNames(req)) \ {<<>>} : n = requesterNameOf(req)

\* C20: a batch_join that is trusted, or untrusted and naming only the requester, appends
\* the listed players whose sanitised name is not in waiting_list to the back of the queue,
\* once each, in list order and not resting; adds a roster entry with games 0 and wins 0
\* for each listed name the roster of the current sport lacks; and leaves the entries that
\* were in the queue and in the roster as they were.
C20_BatchJoin ==
    [][JoinAllowed(club, last'.req) =>
        LET q == club.waiting_list
            q2 == club'.waiting_list
            ro == getRoster(club)
            ro2 == getRoster(club')
            names == GivenNames(last'.req)
        IN  /\ last'.kind = "applied"
            /\ NamesOf(q2) = NamesOf(q) \o Fresh(names, QueueNames(club))
            /\ \A i \in 1..Len(q) : q2[i] = q[i]
            /\ \A i \in (Len(q) + 1)..Len(q2) : ~q2[i].isResting
            /\ NamesOf(ro2) =
                  NamesOf(ro) \o Fresh(names, {ro[i].name : i \in 1..Len(ro)})
            /\ \A i \in 1..Len(ro) : ro2[i] = ro[i]
            /\ \A i \in (Len(ro) + 1)..Len(ro2) : ro2[i].games = 0 /\ ro2[i].wins = 0
            /\ club'.court_occupants = club.court_occupants
            /\ club'.match_history = club.match_history]_vars

\* power guest B listed A (waiting already), a name that sanitises to nothing, A1 and A
\* again: A1 alone was appended, and registered with no games and no wins
C20_BatchJoinSeen ==
    /\ last.kind = "applied"
    /\ last.req.action = "batch_join"
    /\ Len(GivenNames(last.req)) = 4
    /\ JoinAllowed(last.prev, last.req)
    /\ NamesOf(club.waiting_list) = <<A, B, C, D, <<"A", "1">>>>
    /\ getRoster(club)[5] = [name |-> <<"A", "1">>, gender |-> "M", games |-> 0, wins |-> 0]

(***************************************************************************)
(* leave.                                                                  *)
(***************************************************************************)
\* a leave whose target, sanitised, is the name of no queue entry
LeaveOfAbsent(c, req) ==
    /\ req.action = "leave"
    /\ ~IsNull(req.payload)
    /\ sanitiseName(PayloadName(req.payload)) \notin QueueNames(c)

A1 == <<"A", "1">>

\* five waiting, the second one resting
RestingSecondClub ==
    [LoadedClub EXCEPT
        !.waiting_list = [QueueOf(<<A, B, C, D, A1>>) EXCEPT ![2].isResting = TRUE],
        !.master_roster = Put(EmptyObj, "tableTennis", RosterOf(<<A, B, C, D, A1>>))]

TimerClubs == {LoadedClub, PlayingClub, RestingSecondClub}

TimerRows ==
    {SentBy(<<"a">>, "heartbeat", [name |-> <<"a">>]),
     SentBy(<<"!">>, "heartbeat", [name |-> <<"!">>]),
     SentBy(<<"a">>, "leave", [name |-> <<"a">>]),
     SentBy(<<"b", "1">>, "batch_join",
            [name |-> <<"b", "1">>, players |-> <<PayloadPlayer(<<"b", "1">>)>>]),
     SentBy(<<"a">>, "start_match",
            [name |-> <<"a">>, courtIdx |-> 0,
             players |-> <<PayloadPlayer(<<"a">>), PayloadPlayer(C)>>])}

TimerInit ==
    /\ club \in TimerClubs
    /\ clubRef = club
    /\ durable = club
    /\ renderPending = FALSE
    /\ reqTable = {}
    /\ inbox = <<>>
    /\ writes = <<>>
    /\ bcast = <<>>
    /\ hb = EmptyObj
    /\ now = StartTime
    /\ lastInactiveCheck = 0
    /\ secondsCounter = 0
    /\ currentTopPlayer = <<>>
    /\ settings \in SettingsChoices
    /\ subscribed = FALSE
    /\ last = NoLast
    /\ used = [ops |-> 0, ins |-> 0, fail |-> 0]
    /\ selectedQueueIdx = <<>>
    /\ hist = [failed |-> FALSE, handed |-> {}, unsaved |-> {}, ideal |-> club]

\* a guest device inserts one of these rows (sendReq) while the timer runs
TimerInsert == GuestInsertFrom(TimerRows)

TimerNext ==
    \/ HostSubscribe
    \/ TimerInsert
    \/ HostReceive
    \/ WriteDone
    \/ BroadcastDeliver
    \/ Render
    \/ HostTick

TimerSpec == TimerInit /\ [][TimerNext]_vars

\* the req-sync callback takes a heartbeat
TakesHeartbeat ==
    inbox # <<>> /\ inbox' = Tail(inbox) /\ Head(inbox).action = "heartbeat"

\* C22: processing a heartbeat changes the liveness timestamp of the sanitised requester
\* name and nothing else of the session: the Club document in memory and in the store,
\* the pending writes and the timer's counters are as before, applyRequest is not called,
\* and the heartbeat is not rejected (its row is removed).
C22_HeartbeatOnly ==
    [][TakesHeartbeat =>
        LET name == sanitiseName(PayloadName(Head(inbox).payload))
        IN  /\ last'.kind = "heartbeat"
            /\ club' = club
            /\ clubRef' = clubRef
            /\ durable' = durable
            /\ writes' = writes
            /\ bcast' = bcast
            /\ renderPending' = renderPending
            /\ secondsCounter' = secondsCounter
            /\ currentTopPlayer' = currentTopPlayer
            /\ DOMAIN hb' = DOMAIN hb \cup (IF name = <<>> THEN {} ELSE {name})
            /\ \A n \in DOMAIN hb' : hb'[n] = (IF n = name THEN now ELSE hb[n])
            /\ reqTable' = DeleteRequest(reqTable, Head(inbox).id)]_vars

\* guest A's heartbeat was taken after the timer had run: A's timestamp is the present
\* time, later than the one of the others, and the document is the stored one
C22_HeartbeatSeen ==
    /\ last.kind = "heartbeat"
    /\ requesterNameOf(last.req) = A
    /\ A \in DOMAIN hb
    /\ hb[A] = now
    /\ B \in DOMAIN hb
    /\ hb[B] < now
    /\ club = durable

\* C23: a timer tick (stale-guest eviction or countdown move) never writes a waiting_list
\* computed from a snapshot older than the latest applied request: after the tick that
\* follows an applied request the queue holds the players it held when the request had
\* been applied, less those the tick evicts; nobody the request removed or put on a court
\* is back, and nobody the request added is missing.
C23_TickKeepsApplied ==
    [][(last.kind = "applied" /\ last'.kind = "tick") =>
        /\ QueueNames(club') = QueueNames(club) \ last'.evicted
        /\ (NotQueuedAndPlaying(club) => NotQueuedAndPlaying(club'))]_vars

(***************************************************************************)
(* Who start_match puts on a court.                                        *)
(***************************************************************************)
\* C24: every player an applied start_match puts on a court, whoever sent it, was an
\* entry of waiting_list immediately before the request and is not in waiting_list after
\* it; a named player who is not queued is never put on a court.
C24_PlacedFromQueue ==
    [][Applied("start_match") =>
        LET placed == club'.court_occupants[ToString(last'.req.payload.courtIdx)]
        IN  \A i \in 1..Len(placed) :
                /\ Includes(club.waiting_list, placed[i])
                /\ placed[i].name \notin QueueNames(club')]_vars

(***************************************************************************)
(* sanitiseName applied to its own result.                                 *)
(***************************************************************************)
MaxTail == 2

TailChars == {"a", "B", " ", "!"}

\* raw names: up to MaxNameLen letters followed by up to MaxTail further characters
NameInputs ==
    {[i \in 1..k |-> "a"] \o t :
        k \in 0..MaxNameLen, t \in UNION {[1..m -> TailChars] : m \in 0..MaxTail}}

NameInit ==
    /\ club = FreshClub
    /\ clubRef = club
    /\ durable = club
    /\ renderPending = FALSE
    /\ reqTable = {}
    /\ inbox = <<>>
    /\ writes = <<>>
    /\ bcast = <<>>
    /\ hb = EmptyObj
    /\ now = StartTime
    /\ lastInactiveCheck = 0
    /\ secondsCounter = 0
    /\ currentTopPlayer = <<>>
    /\ settings = DefaultSettings
    /\ subscribed = FALSE
    /\ last \in {[kind |-> "raw", raw |-> n, once |-> <<>>, twice |-> <<>>] : n \in NameInputs}
    /\ used = [ops |-> 0, ins |-> 0, fail |-> 0]
    /\ selectedQueueIdx = <<>>
    /\ hist = [failed |-> FALSE, handed |-> {}, unsaved |-> {}, ideal |-> club]

\* the name is sanitised when it is stored (batch_join)
SanitiseOnce ==
    /\ last.kind = "raw"
    /\ last' = [last EXCEPT !.kind = "once", !.once = sanitiseName(last.raw)]
    /\ UNCHANGED <<selectedQueueIdx, club, clubRef, renderPending, durable, reqTable, inbox, writes, bcast, hb,
                   now, lastInactiveCheck, secondsCounter, currentTopPlayer, settings,
                   subscribed, used, hist>>

\* the stored name is sanitised again (start_match player names)
SanitiseAgain ==
    /\ last.kind = "once"
    /\ last' = [last EXCEPT !.kind = "twice", !.twice = sanitiseName(last.once)]
    /\ UNCHANGED <<selectedQueueIdx, club, clubRef, renderPending, durable, reqTable, inbox, writes, bcast, hb,
                   now, lastInactiveCheck, secondsCounter, currentTopPlayer, settings,
                   subscribed, used, hist>>

NameNext == SanitiseOnce \/ SanitiseAgain

NameSpec == NameInit /\ [][NameNext]_vars

\* C25: sanitiseName is idempotent: sanitising a sanitised name gives the same name, for
\* every input.
C25_Idempotent == last.kind = "twice" => last.twice = last.once

(***************************************************************************)
(* Stale-guest eviction and players without a device.                      *)
(***************************************************************************)
\* C26: the queue entry of a player whom the host added and for whom no heartbeat request
\* was ever received is never removed by stale-guest eviction.  D is such a player: no
\* device sends a row in D's name, and the queue entry records nothing else about where
\* it came from.
C26_HostAddedStays == [][last'.kind = "tick" => D \notin last'.evicted]_vars

(***************************************************************************)
(* start_match of a requester who is neither host nor power guest.         *)
(***************************************************************************)
\* the requester is named, is the first entry not resting, and every named player is an
\* entry not resting at an index below pick_limit
UntrustedStartOk(c, req) ==
    LET names == SeqToSet(GivenNames(req))
        r == requesterNameOf(req)
        q == c.waiting_list
        first == FindIndex(q, LAMBDA w : ~w.isResting)
    IN  /\ r \in names
        /\ first # 0
        /\ q[first].name = r
        /\ \A n \in names :
              \E i \in 1..Len(q) : q[i].name = n /\ ~q[i].isResting /\ i - 1 < c.pick_limit

\* C27: a start_match of an untrusted requester is applied only if the requester is one
\* of the named players, is the first non-paused entry of waiting_list, and every named
\* player is a non-paused entry at an index below pick_limit; otherwise it is rejected and
\* the Club document is unchanged.
C27_UntrustedStart ==
    [][(/\ last'.kind \in {"applied", "nowrite", "null"}
        /\ last'.req.action = "start_match"
        /\ ~elevated(club, last'.req)
        /\ ~UntrustedStartOk(club, last'.req))
       => (last'.kind = "null" /\ club' = club)]_vars

\* with pick_limit 4, A, first in line, took D from the fourth place
C27_UntrustedStartSeen ==
    /\ last.kind = "applied"
    /\ last.req.action = "start_match"
    /\ ~elevated(last.prev, last.req)
    /\ UntrustedStartOk(last.prev, last.req)
    /\ last.prev.pick_limit = MinPickLimit
    /\ Len(last.prev.waiting_list) > MinPickLimit
    /\ NamesOf(club.court_occupants["0"]) = <<A, D>>

(***************************************************************************)
(* The countdown.                                                          *)
(***************************************************************************)
\* the move as the claim describes it, on the queue q the timer read: the timed-out top
\* player is second in q2, and the other entries are those of q in their order
MovedToSecond(q, q2) ==
    LET top == FirstActiveName(q)
    IN  /\ Len(q2) = Len(q)
        /\ q2[2].name = top
        /\ Filter(q2, LAMBDA w : w.name # top) = Filter(q, LAMBDA w : w.name # top)
        /\ \E i \in 1..Len(q) : q[i].name = top /\ q2[2] = q[i]

\* C28: when the countdown fires, the timed-out top player is moved to the second position
\* of the queue, no other entry is added, removed or reordered, the idle timer is zero
\* again, and afterwards a different player is the first non-paused entry, the new top
\* player.
C28_Countdown ==
    [][(last'.kind = "tick" /\ last'.moved) =>
        /\ MovedToSecond(clubRef.waiting_list, club'.waiting_list)
        /\ secondsCounter' = 0
        /\ FirstActiveName(club'.waiting_list) # FirstActiveName(clubRef.waiting_list)
        /\ currentTopPlayer' = FirstActiveName(club'.waiting_list)]_vars

(***************************************************************************)
(* Wins and games.                                                         *)
(***************************************************************************)
WinsWithinGames(c) ==
    \A k \in DOMAIN c.master_roster :
        \A i \in 1..Len(c.master_roster[k]) :
            c.master_roster[k][i].wins <= c.master_roster[k][i].games

\* C29: in every reachable state every roster player has won at most as many games as
\* the player has played, in the document the host holds and in the stored one.
C29_WinsWithinGames == WinsWithinGames(club) /\ WinsWithinGames(durable)

(***************************************************************************)
(* The queue panel on a guest's device.                                    *)
(***************************************************************************)
\* sendReq: the row carries { ...payload, name } with the device's own name
sendReq(myName, action, payload) ==
    Row(sanitiseName(myName), action,
        [k \in DOMAIN payload \cup {"name"} |-> IF k = "name" THEN myName ELSE payload[k]])

\* the device's isPowerGuest, derived from the queue it shows
isPowerGuest(c, myName) ==
    Some(c.waiting_list, LAMBDA w : w.name = myName /\ w.isPowerGuest)

\* QueuePanel onLeave on a device that is not the host's
onLeave(c, myName, name) ==
    IF isPowerGuest(c, myName) THEN sendReq(myName, "leave", [name |-> name])
    ELSE sendReq(myName, "leave", EmptyObj)

PanelGuests == {A, B, C}

PanelInit == ApplyInit

\* a guest taps the cross of a queue entry (shown on the own entry, and on every entry
\* when the device is a power guest's); the host applies the row that arrives
PanelLeave ==
    /\ used.ops < MaxOps
    /\ \E me \in PanelGuests, name \in QueueNames(club) :
        /\ isPowerGuest(club, me) \/ name = me
        /\ LET req == onLeave(club, me, name)
               result == applyRequest(club, req)
           IN  /\ club' = IF result.ok THEN result.next ELSE club
               /\ last' = [kind |-> IF result.threw THEN "threw"
                                    ELSE IF ~result.ok THEN "null"
                                    ELSE IF result.noWrite THEN "nowrite" ELSE "applied",
                           req |-> req, prev |-> club, by |-> me, tapped |-> name]
    /\ clubRef' = club'
    /\ durable' = club'
    /\ used' = [used EXCEPT !.ops = @ + 1]
    /\ UNCHANGED <<selectedQueueIdx, renderPending, reqTable, inbox, writes, bcast, hb, now, lastInactiveCheck,
                   secondsCounter, currentTopPlayer, settings, subscribed, hist>>

\* the host grants or revokes power-guest rights on the queue panel
PanelGrant ==
    /\ used.ops < MaxOps
    /\ \E w \in SeqToSet(club.waiting_list) :
        LET req == HostRequest("grant_power_guest",
                               [targetName |-> w.name, grant |-> ~w.isPowerGuest])
            result == applyRequest(club, req)
        IN  /\ club' = IF result.ok THEN result.next ELSE club
            /\ last' = [kind |-> IF ~result.ok THEN "null" ELSE "applied",
                        req |-> req, prev |-> club, by |-> <<>>, tapped |-> <<>>]
    /\ clubRef' = club'
    /\ durable' = club'
    /\ used' = [used EXCEPT !.ops = @ + 1]
    /\ UNCHANGED <<selectedQueueIdx, renderPending, reqTable, inbox, writes, bcast, hb, now, lastInactiveCheck,
                   secondsCounter, currentTopPlayer, settings, subscribed, hist>>

PanelNext == PanelLeave \/ PanelGrant

PanelSpec == PanelInit /\ [][PanelNext]_vars

\* C30: when a power guest removes another queued player Y on the queue panel, the leave
\* request that reaches the host removes Y's entry from waiting_list and leaves the power
\* guest's own entry in place.
C30_PowerGuestRemoves ==
    [][(/\ last'.tapped # <<>>
        /\ last'.tapped # last'.by
        /\ isPowerGuest(club, last'.by))
       => (/\ last'.tapped \notin QueueNames(club')
           /\ last'.by \in QueueNames(club'))]_vars

(***************************************************************************)
(* Picking players on the host's queue panel: handleAutoPick, tapping and  *)
(* assignCourt.  Queue positions are counted from 1 here (queueIdx + 1).   *)
(***************************************************************************)
\* selectedNames.includes(team[i - 1]), false when the team has no such member
TeamMemberIn(team, i, names) == i <= Len(team) /\ Includes(names, team[i])

\* lastPairs.some(([a, b]) => selectedNames.includes(a) && selectedNames.includes(b))
HasRepeat(lastMatch, names) ==
    LET t1 == lastMatch.team1
        t2 == lastMatch.team2
    IN  \/ TeamMemberIn(t1, 1, names) /\ TeamMemberIn(t1, 2, names)
        \/ TeamMemberIn(t2, 1, names) /\ TeamMemberIn(t2, 2, names)
        \/ TeamMemberIn(t1, 1, names) /\ TeamMemberIn(t2, 1, names)
        \/ TeamMemberIn(t1, 1, names) /\ TeamMemberIn(t2, 2, names)
        \/ TeamMemberIn(t1, 2, names) /\ TeamMemberIn(t2, 1, names)
        \/ TeamMemberIn(t1, 2, names) /\ TeamMemberIn(t2, 2, names)

\* the positions of the non-resting entries below the pick limit, in queue order
EligiblePositions(c) ==
    LET limit == IF c.pick_limit = 0 THEN DefaultPickLimit ELSE c.pick_limit
        q == c.waiting_list
    IN  SelectSeq([i \in 1..Len(q) |-> i], LAMBDA i : ~q[i].isResting /\ (i - 1) < limit)

handleAutoPick(c, perGame, genderBalanced, avoidRepeats) ==
    LET q == c.waiting_list
        eligible == EligiblePositions(c)
        half == perGame \div 2
        males == SelectSeq(eligible, LAMBDA i : q[i].gender # "F")
        females == SelectSeq(eligible, LAMBDA i : q[i].gender = "F")
        first == IF genderBalanced /\ half >= 1 /\ Len(males) >= half /\ Len(females) >= half
                 THEN Take(males, half) \o Take(females, half)
                 ELSE Take(eligible, perGame)
        firstNames == [k \in 1..Len(first) |-> q[first[k]].name]
        lastMatch == c.match_history[1]
        lastMatchNames == lastMatch.team1 \o lastMatch.team2
        kept == Take(first, 3)
        keptNames == [k \in 1..Len(kept) |-> q[kept[k]].name]
        alternates == SelectSeq(eligible, LAMBDA i : /\ ~Includes(lastMatchNames, q[i].name)
                                                     /\ ~Includes(keptNames, q[i].name))
        selected == IF /\ avoidRepeats
                       /\ c.match_history # <<>>
                       /\ HasRepeat(lastMatch, firstNames)
                       /\ alternates # <<>>
                    THEN Append(kept, alternates[1])
                    ELSE first
    IN  IF Len(eligible) < perGame THEN [ok |-> FALSE, idx |-> <<>>]
        ELSE [ok |-> TRUE, idx |-> selected]

\* A and B have played each other, C has joined since
PlayedClub ==
    [PlayingClub EXCEPT !.court_occupants = EmptyObj,
                        !.waiting_list = QueueOf(<<A, B, C>>),
                        !.match_history = <<OldRecord(1)>>]

\* doubles: A and B have played C and D, and a fifth player waits
DoublesClub ==
    [MovedClub EXCEPT
        !.waiting_list = QueueOf(<<A, B, C, D, <<"A", "1">>>>),
        !.master_roster = Put(EmptyObj, "badminton", RosterOf(<<A, B, C, D, <<"A", "1">>>>)),
        !.match_history = <<[court |-> 1, team1 |-> <<A, B>>, team2 |-> <<C, D>>,
                             winners |-> <<A, B>>]>>]

PickClubs == {FreshClub, LoadedClub, PlayingClub, MovedClub, PickClub, PlayedClub, DoublesClub}

\* rows of guests that reach the host while a selection is on the screen
MeanwhileRows ==
    {SentBy(A, "leave", [name |-> A]),
     SentBy(C, "toggle_pause", [name |-> C])}

PickInit ==
    /\ club \in PickClubs
    /\ clubRef = club
    /\ durable = club
    /\ renderPending = FALSE
    /\ reqTable = {}
    /\ inbox = <<>>
    /\ writes = <<>>
    /\ bcast = <<>>
    /\ hb = EmptyObj
    /\ now = StartTime
    /\ lastInactiveCheck = 0
    /\ secondsCounter = 0
    /\ currentTopPlayer = <<>>
    /\ settings = DefaultSettings
    /\ subscribed = TRUE
    /\ last = NoLast
    /\ used = [ops |-> 0, ins |-> 0, fail |-> 0]
    /\ selectedQueueIdx = <<>>
    /\ hist = [failed |-> FALSE, handed |-> {}, unsaved |-> {}, ideal |-> club]

PickFrame ==
    UNCHANGED <<renderPending, reqTable, inbox, writes, bcast, hb, now, lastInactiveCheck,
                secondsCounter, currentTopPlayer, settings, subscribed, hist>>

\* onAutoPick: the positions handleAutoPick returns become the selection
AutoPick ==
    /\ used.ops < MaxOps
    /\ selectedQueueIdx = <<>>
    /\ \E genderBalanced \in BOOLEAN, avoidRepeats \in BOOLEAN :
        LET r == handleAutoPick(club, playersPerGame(club.sport), genderBalanced,
                                avoidRepeats)
        IN  /\ selectedQueueIdx' = r.idx
            /\ last' = [kind |-> IF r.ok THEN "picked" ELSE "notenough", auto |-> TRUE,
                        idx |-> r.idx,
                        names |-> [k \in 1..Len(r.idx) |-> club.waiting_list[r.idx[k]].name],
                        genderBalanced |-> genderBalanced, avoidRepeats |-> avoidRepeats]
    /\ UNCHANGED <<club, clubRef, durable, used>>
    /\ PickFrame

\* the host taps queue entries until playersPerGame are ticked
TapQueue ==
    /\ used.ops < MaxOps
    /\ selectedQueueIdx = <<>>
    /\ \E sel \in HostSelections :
        /\ Len(sel) = playersPerGame(club.sport)
        /\ \A k \in 1..Len(sel) : sel[k] <= Len(club.waiting_list)
        /\ selectedQueueIdx' = sel
        /\ last' = [kind |-> "picked", auto |-> FALSE, idx |-> sel,
                    names |-> [k \in 1..Len(sel) |-> club.waiting_list[sel[k]].name],
                    genderBalanced |-> FALSE, avoidRepeats |-> FALSE]
    /\ UNCHANGED <<club, clubRef, durable, used>>
    /\ PickFrame

\* a guest's request is applied while the selection is on the screen
Meanwhile ==
    /\ used.ops < MaxOps
    /\ selectedQueueIdx # <<>>
    /\ \E req \in MeanwhileRows :
        LET result == applyRequest(club, req)
        IN  /\ result.ok
            /\ club' = result.next
    /\ clubRef' = club'
    /\ durable' = club'
    /\ used' = [used EXCEPT !.ops = @ + 1]
    /\ UNCHANGED <<last, selectedQueueIdx>>
    /\ PickFrame

\* assignCourt(courtIdx, selectedQueueIdx) on the host, and the clearing of the selection
\* that follows it
assignCourt ==
    /\ used.ops < MaxOps
    /\ selectedQueueIdx # <<>>
    /\ \E courtIdx \in {0, 1} :
        LET q == club.waiting_list
            there == SelectSeq(selectedQueueIdx, LAMBDA i : i <= Len(q))
            players == [k \in 1..Len(there) |-> q[there[k]]]
            req == HostRequest("start_match", [courtIdx |-> courtIdx, players |-> players])
            result == applyRequest(club, req)
        IN  IF Len(players) # Len(selectedQueueIdx)
            THEN /\ club' = club
                 /\ last' = [kind |-> "queuechanged", req |-> req, prev |-> club,
                             names |-> last.names]
            ELSE /\ club' = IF result.ok THEN result.next ELSE club
                 /\ last' = [kind |-> IF result.ok THEN "applied" ELSE "null",
                             req |-> req, prev |-> club, names |-> last.names]
    /\ selectedQueueIdx' = <<>>
    /\ clubRef' = club'
    /\ durable' = club'
    /\ used' = [used EXCEPT !.ops = @ + 1]
    /\ PickFrame

PickNext == AutoPick \/ TapQueue \/ Meanwhile \/ assignCourt

PickSpec == PickInit /\ [][PickNext]_vars

\* assignCourt has sent a start_match
SentByAssignCourt ==
    selectedQueueIdx # <<>> /\ selectedQueueIdx' = <<>> /\ last'.kind \in {"applied", "null"}

\* C31: the players assignCourt sends in its start_match are exactly the players who were
\* at the selected queue positions when they were selected, also when waiting_list has
\* changed between the selection and the court assignment.
C31_SelectedAreSent ==
    [][SentByAssignCourt => NamesOf(last'.req.payload.players) = last.names]_vars

\* the step was an auto-pick
AutoPicked == selectedQueueIdx = <<>> /\ last'.kind \in {"picked", "notenough"} /\ last'.auto

\* C32: handleAutoPick either fails with "not enough players", when fewer than
\* playersPerGame non-paused entries lie below pick_limit, or returns exactly
\* playersPerGame distinct queue positions, each of a non-paused entry below pick_limit,
\* whatever the sport and the gender-balance and avoid-repeats policies.
C32_AutoPick ==
    [][AutoPicked =>
        LET eligible == SeqToSet(EligiblePositions(club))
            perGame == playersPerGame(club.sport)
        IN  IF Cardinality(eligible) < perGame
            THEN last'.kind = "notenough" /\ selectedQueueIdx' = <<>>
            ELSE /\ last'.kind = "picked"
                 /\ Len(selectedQueueIdx') = perGame
                 /\ Cardinality(SeqToSet(selectedQueueIdx')) = perGame
                 /\ SeqToSet(selectedQueueIdx') \subseteq eligible]_vars

(***************************************************************************)
(* Who may finish a match.                                                 *)
(***************************************************************************)
\* the requester of req is one of those playing on the court req names
OccupantAsks(c, req) ==
    LET k == ToString(req.payload.courtIdx)
    IN  /\ k \in DOMAIN c.court_occupants
        /\ Includes(NamesOf(c.court_occupants[k]), requesterNameOf(req))

\* a finish_match of a requester who is neither host nor power guest, handled without an
\* exception
UntrustedFinish(c, req, kind) ==
    /\ kind \in {"applied", "nowrite", "null"}
    /\ req.action = "finish_match"
    /\ ~elevated(c, req)

\* C33: a finish_match of an untrusted requester is applied only if the requester is a
\* current occupant of that court; from a requester who waits in the queue or plays on
\* another court it is rejected and the Club document is unchanged.
C33_OccupantFinishes ==
    [][(UntrustedFinish(club, last'.req, last'.kind) /\ ~OccupantAsks(club, last'.req))
       => (last'.kind = "null" /\ club' = club)]_vars

\* C, playing on court 1, asked to finish the match on court 0 and was refused
C33_OtherCourtRefused ==
    /\ last.kind = "null"
    /\ UntrustedFinish(last.prev, last.req, last.kind)
    /\ requesterNameOf(last.req) = C
    /\ last.req.payload.courtIdx = 0
    /\ "0" \in DOMAIN club.court_occupants
    /\ "1" \in DOMAIN club.court_occupants
    /\ Includes(NamesOf(club.court_occupants["1"]), C)
    /\ club = last.prev

(***************************************************************************)
(* The winners of a finished match.                                        *)
(***************************************************************************)
\* the wins of the roster player called n, 0 when the roster has no such player
WinsOf(c, n) ==
    LET r == getRoster(c)
        i == FindIndex(r, LAMBDA m : m.name = n)
    IN  IF i = 0 THEN 0 ELSE r[i].wins

RosterNames(c) == {getRoster(c)[i].name : i \in 1..Len(getRoster(c))}

\* C34: the winners a finish_match records are at most 2 names, each an occupant of the
\* finished court at that moment; a name in matchWinners that is not an occupant is not
\* recorded and gets no win.
C34_WinnersAreOccupants ==
    [][Applied("finish_match") =>
        LET occ == SeqToSet(NamesOf(club.court_occupants[ToString(last'.req.payload.courtIdx)]))
            recorded == club'.match_history[1].winners
        IN  /\ Len(recorded) <= MaxWinners
            /\ SeqToSet(recorded) \subseteq occ
            /\ \A n \in (RosterNames(club) \cup RosterNames(club')) \ occ :
                  WinsOf(club', n) = WinsOf(club, n)]_vars

\* A and B played; the request named C, who waited, and A: only A is recorded, and C has
\* no win
C34_OutsiderDropped ==
    /\ last.kind = "applied"
    /\ last.req.action = "finish_match"
    /\ GivenWinners(last.req) = <<C, A>>
    /\ club.match_history[1].winners = <<A>>
    /\ C \in RosterNames(club)
    /\ WinsOf(club, C) = 0
    /\ WinsOf(club, A) = WinsOf(last.prev, A) + 1

\* C35: one finish_match adds at most 1 to the wins of any one roster player, whatever
\* its matchWinners list holds.
C35_OneWinPerMatch ==
    [][Applied("finish_match") =>
        \A n \in RosterNames(club') : WinsOf(club', n) <= WinsOf(club, n) + 1]_vars

(***************************************************************************)
(* Substitutions: the host's doSubstitute and the substitute rows of       *)
(* guests, applied to sessions with matches going on.                      *)
(***************************************************************************)
\* the host started the match on the first court with A, who was resting; C, who waits with
\* the resting D, is a power guest
SubClub ==
    [PlayingClub EXCEPT
        !.court_occupants["0"][1].isResting = TRUE,
        !.waiting_list = [QueueOf(<<C, D>>) EXCEPT ![1].isPowerGuest = TRUE,
                                                    ![2].isResting = TRUE]]

\* matches on both courts, and D waiting
BothCourtsClub ==
    [FreshClub EXCEPT
        !.waiting_list = QueueOf(<<D>>),
        !.court_occupants = Put(Put(EmptyObj, "0", QueueOf(<<A, B>>)), "1", QueueOf(<<C, A1>>)),
        !.master_roster = Put(EmptyObj, "tableTennis", RosterOf(<<A, B, C, D, A1>>))]

SubClubs == {LoadedClub, PlayingClub, SubClub, BothCourtsClub}

SubPayloads ==
    {[courtIdx |-> k, outPlayer |-> o, inPlayer |-> i] :
        k \in {0, 1}, o \in {A, C}, i \in {C, B, D}}

\* doSubstitute: the host's screen hands the court, the player to take off and the player
\* to bring on to processRequest; guests hand the same fields to sendReq
SubRequests ==
    {HostRequest("substitute", p) : p \in SubPayloads}
    \cup {SentBy(n, "substitute", [name |-> n] @@ p) : n \in {C, D}, p \in SubPayloads}

SubInit ==
    /\ club \in SubClubs
    /\ clubRef = club
    /\ durable = club
    /\ renderPending = FALSE
    /\ reqTable = {}
    /\ inbox = <<>>
    /\ writes = <<>>
    /\ bcast = <<>>
    /\ hb = EmptyObj
    /\ now = StartTime
    /\ lastInactiveCheck = 0
    /\ secondsCounter = 0
    /\ currentTopPlayer = <<>>
    /\ settings = DefaultSettings
    /\ subscribed = TRUE
    /\ selectedQueueIdx = <<>>
    /\ hist = <<>>
    /\ used = [ops |-> 0, fails |-> 0]
    /\ last = [kind |-> "none"]

doSubstitute ==
    /\ used.ops < MaxOps
    /\ \E req \in SubRequests :
        LET result == applyRequest(club, req)
        IN  /\ club' = IF result.ok THEN result.next ELSE club
            /\ last' = [kind |-> IF result.threw THEN "threw"
                                 ELSE IF ~result.ok THEN "null" ELSE "applied",
                        req |-> req, prev |-> club]
    /\ clubRef' = club'
    /\ durable' = club'
    /\ used' = [used EXCEPT !.ops = @ + 1]
    /\ UNCHANGED <<selectedQueueIdx, renderPending, reqTable, inbox, writes, bcast, hb, now,
                   lastInactiveCheck, secondsCounter, currentTopPlayer, settings, subscribed,
                   hist>>

SubNext == doSubstitute

SubSpec == SubInit /\ [][SubNext]_vars

\* the request comes from the host or from a player who waits as a power guest
SubTrusted(c, req) ==
    \/ req.fromHost
    \/ \E i \in 1..Len(c.waiting_list) :
          /\ c.waiting_list[i].name = sanitiseName(PayloadName(req.payload))
          /\ c.waiting_list[i].isPowerGuest

SubBusy(c, req) == ToString(req.payload.courtIdx) \in DOMAIN c.court_occupants

SubOutOnCourt(c, req) ==
    /\ SubBusy(c, req)
    /\ req.payload.outPlayer \in SeqToSet(NamesOf(c.court_occupants[ToString(req.payload.courtIdx)]))

SubInWaiting(c, req) == req.payload.inPlayer \in QueueNames(c)

\* the state after the swap, slot by slot
Swapped(c, c2, req) ==
    LET cIdx == ToString(req.payload.courtIdx)
        court == c.court_occupants[cIdx]
        court2 == c2.court_occupants[cIdx]
        q == c.waiting_list
        q2 == c2.waiting_list
        slot == CHOOSE j \in 1..Len(court) :
                    /\ court[j].name = req.payload.outPlayer
                    /\ \A k \in 1..(j - 1) : court[k].name # req.payload.outPlayer
    IN  /\ DOMAIN c2.court_occupants = DOMAIN c.court_occupants
        /\ \A k \in DOMAIN c.court_occupants \ {cIdx} :
              c2.court_occupants[k] = c.court_occupants[k]
        /\ Len(court2) = Len(court)
        /\ \A j \in 1..Len(court) : j # slot => court2[j] = court[j]
        /\ court2[slot].name = req.payload.inPlayer
        /\ req.payload.inPlayer \notin {q2[i].name : i \in 1..(Len(q2) - 1)}
        /\ Len(q2) >= 1
        /\ q2[Len(q2)] = [court[slot] EXCEPT !.isResting = FALSE]
        /\ SubSeq(q2, 1, Len(q2) - 1) = SelectSeq(q, LAMBDA p : p.name # req.payload.inPlayer)

\* C36: a substitute from the host or a power guest, for a busy court that holds the
\* out-player, with the in-player waiting, puts the in-player in the out-player's slot,
\* takes the in-player out of the queue and appends the out-player at its back, not
\* resting; the court keeps its size and the other courts stay as they were.  A substitute
\* from anyone else, for a free court, for an in-player who does not wait or for an
\* out-player who is not on that court is rejected and the document stays as it was.
C36_Substitute ==
    [][last'.req.action = "substitute" =>
        IF /\ SubTrusted(club, last'.req)
           /\ SubOutOnCourt(club, last'.req)
           /\ SubInWaiting(club, last'.req)
        THEN last'.kind = "applied" /\ Swapped(club, club', last'.req)
        ELSE last'.kind = "null" /\ club' = club]_vars

\* power guest C took the resting A off the first court and came on herself: C plays in
\* A's slot next to B, and A waits last behind D, not resting
C36_Swapped ==
    /\ last.kind = "applied"
    /\ last.req.action = "substitute"
    /\ ~last.req.fromHost
    /\ last.prev.court_occupants["0"][1].isResting
    /\ NamesOf(last.prev.court_occupants["0"]) = <<A, B>>
    /\ NamesOf(club.court_occupants["0"]) = <<C, B>>
    /\ NamesOf(club.waiting_list) = <<D, A>>
    /\ ~club.waiting_list[2].isResting

(***************************************************************************)
(* Rows stored with the host's marks.                                      *)
(***************************************************************************)
\* a row a device inserted with _fromHost and _isPowerGuest set
Forged(row) == [row EXCEPT !.fromHost = TRUE] @@ [isPowerGuest |-> TRUE]

\* rows of C, who waits: asking for power guest status, taking it from B, and bringing
\* herself on for A; as sendReq stores them, and with the host's marks
ForgedRows ==
    LET rows == {SentBy(C, "grant_power_guest", [name |-> C, targetName |-> C, grant |-> TRUE]),
                 SentBy(C, "grant_power_guest", [name |-> C, targetName |-> B, grant |-> FALSE]),
                 SentBy(C, "substitute",
                        [name |-> C, courtIdx |-> 0, outPlayer |-> A, inPlayer |-> C]),
                 SentBy(C, "toggle_pause", [name |-> C])}
    IN  rows \cup {Forged(r) : r \in rows}

ForgedClubs == {PlayingClub, PowerClub}

ForgedInit ==
    /\ club \in ForgedClubs
    /\ clubRef = club
    /\ durable = club
    /\ renderPending = FALSE
    /\ reqTable = {}
    /\ inbox = <<>>
    /\ writes = <<>>
    /\ bcast = <<>>
    /\ hb = EmptyObj
    /\ now = StartTime
    /\ lastInactiveCheck = 0
    /\ secondsCounter = 0
    /\ currentTopPlayer = <<>>
    /\ settings = DefaultSettings
    /\ subscribed = FALSE
    /\ last = NoLast
    /\ used = [ops |-> 0, ins |-> 0, fail |-> 0]
    /\ selectedQueueIdx = <<>>
    /\ hist = [failed |-> FALSE, handed |-> {}, unsaved |-> {}, ideal |-> club]

ForgedInsert == GuestInsertFrom(ForgedRows)

ForgedNext ==
    \/ HostSubscribe
    \/ ForgedInsert
    \/ HostReceive
    \/ WriteDone
    \/ BroadcastDeliver
    \/ Render

ForgedSpec == ForgedInit /\ [][ForgedNext]_vars

\* the req-sync callback takes a row
TakesRow == inbox # <<>> /\ inbox' = Tail(inbox)

PowerFlags(c) == [i \in 1..Len(c.waiting_list) |-> c.waiting_list[i].isPowerGuest]

\* the requester named in the row waits as a power guest
WaitsAsPowerGuest(c, row) ==
    \E i \in 1..Len(c.waiting_list) :
        /\ c.waiting_list[i].name = sanitiseName(PayloadName(row.payload))
        /\ c.waiting_list[i].isPowerGuest

\* C37: a request that arrives through table requests is never handled as the host's own,
\* whatever _fromHost or _isPowerGuest its row was stored with: a grant_power_guest that
\* arrives this way is rejected and changes no isPowerGuest flag, and a substitute from a
\* requester who does not wait as a power guest is rejected.
C37_QueueNeverHost ==
    [][TakesRow =>
        /\ ~last'.req.fromHost
        /\ Head(inbox).action = "grant_power_guest" =>
              /\ last'.kind = "null"
              /\ club' = club
              /\ PowerFlags(club') = PowerFlags(last'.prev)
              /\ writes' = writes
        /\ (Head(inbox).action = "substitute" /\ ~WaitsAsPowerGuest(clubRef, Head(inbox))) =>
              /\ last'.kind = "null"
              /\ club' = club
              /\ writes' = writes]_vars

\* C's row asking for power guest status was stored with _fromHost and _isPowerGuest set;
\* the host rejected it and nobody in the queue is a power guest
C37_ForgedGrantRefused ==
    /\ last.kind = "null"
    /\ last.req.action = "grant_power_guest"
    /\ \E r \in reqTable : r.id = last.req.id /\ r.fromHost /\ r.isPowerGuest
    /\ \A i \in 1..Len(club.waiting_list) : ~club.waiting_list[i].isPowerGuest

(***************************************************************************)
(* The reminder for the player at the top of the queue.                    *)
(***************************************************************************)
\* the timer ran, nobody was removed, and the player it found first among those not resting
\* is the one it found the second before and still the first after the tick
TopStays ==
    LET top == FirstActiveName(clubRef.waiting_list)
    IN  /\ last'.kind = "tick"
        /\ last'.evicted = {}
        /\ top # <<>>
        /\ currentTopPlayer = top
        /\ FirstActiveName(club.waiting_list) = top
        /\ FirstActiveName(club'.waiting_list) = top

\* C38: with repeat announcements enabled, while the same player stays the first
\* non-resting entry of the queue, the timer speaks a reminder each time another
\* repeatInterval seconds of that player's time at the top have passed.
C38_Reminder ==
    [][(/\ TopStays
        /\ settings.repeatEnabled
        /\ (secondsCounter + 1) % settings.repeatInterval = 0)
       => last'.said = "repeat"]_vars

(***************************************************************************)
(* Pausing a player who does not wait.                                     *)
(***************************************************************************)
\* the req-sync callback takes a toggle_pause whose name matches no entry of the
\* waiting_list processRequest reads
PauseOfAbsent ==
    /\ inbox # <<>>
    /\ inbox' = Tail(inbox)
    /\ Head(inbox).action = "toggle_pause"
    /\ sanitiseName(PayloadName(Head(inbox).payload)) \notin QueueNames(clubRef)

\* C39: a toggle_pause that names a player with no entry in waiting_list is rejected: the
\* Club document stays as it was and no update of table clubs is issued.
C39_PauseOfAbsent ==
    [][PauseOfAbsent =>
        /\ last'.kind = "null"
        /\ club' = club
        /\ writes' = writes]_vars

====
